---- MODULE Spec2Model ----
(***************************************************************************)
(* Workflow orchestration engine of the agentic video editor:             *)
(* WorkflowManager (api/src/services/workflow-manager.ts) driving the     *)
(* five-step reel pipeline and publishing workflow messages through the   *)
(* progress tracker (api/src/services/progress-tracker.ts).               *)
(*                                                                         *)
(* JavaScript values are encoded as follows.  An optional field is the    *)
(* empty tuple when it is undefined and the one-element tuple <<v>> when   *)
(* it holds v.  Times are whole seconds, scores are tenths (0.8 is 8).     *)
(***************************************************************************)
EXTENDS Integers, Sequences, FiniteSets, TLC

VARIABLES
    workflows,     \* keys of the WorkflowManager.workflows map
    steps,         \* state.steps of the run (empty before startWorkflow)
    currentStep,   \* state.currentStep + 1 (0 before the loop starts)
    isComplete,    \* state.isComplete
    pc,            \* position of the coordinator's async call chain
    pendingError,  \* message of the error travelling to the next catch
    published,     \* history: workflow messages handed to sendWorkflowMessage
    listeners,     \* handlers registered on workflow_message:<jobId>, in order
    received,      \* per handler: the messages its callback was called with
    progressListeners, \* handlers registered on progress:<jobId>, in order
    subscribes,    \* per handler, the number of subscribe calls it made so far
    invocations,   \* history: per step, how often its tool executor was called
    toolArgs,      \* history: per step, the arguments of its tool invocation
    inputBatch,    \* validator: the batch handed to validateSegments
    survivors,     \* validator: what the last call of validateSegments returned
    validations,   \* validator: number of calls made so far
    validationRaised, \* validator: the last call threw instead of returning
    runStates,     \* two jobs: per job id, the WorkflowState object of its run
    runPc,         \* two jobs: per job id, where its coordinator stands
    jobListeners,  \* two jobs: per job id, the handlers on workflow_message:<jobId>
    dbUp,          \* persistence: the database answers queries
    jobRows,       \* persistence: the rows of the jobs table, by job id
    lastCall,      \* the last call of createJob, createReel, getJobStatus or
                   \* updateProgress and how it ended
    sse,           \* the connection of one progress stream
    featureFlags,  \* effects: the flags read from the environment at load
    runtimeOverrides, \* effects: the flags overridden at run time
    lastPlan,      \* effects: the last call that planned filters, its
                   \* input and how it ended
    indexing       \* indexing: the options of one indexing job and where
                   \* indexVideoComplete stands

\* the variables of the workflow manager and of the progress tracker
managerVars == <<workflows, steps, currentStep, isComplete, pc, pendingError,
                 published, listeners, progressListeners, received, subscribes,
                 invocations, toolArgs>>
\* the variables of the validator called on its own
validatorVars == <<inputBatch, survivors, validations, validationRaised>>
\* the variables of the runs of two jobs side by side
jobVars == <<runStates, runPc, jobListeners>>

\* the variables of the persistence collaborator and of the callers' view
serviceVars == <<dbUp, jobRows, lastCall>>

\* the variables of the effect planning
plannerVars == <<featureFlags, runtimeOverrides, lastPlan>>

\* what an action of the manager and the tracker leaves alone
outsideManager == <<validatorVars, plannerVars, indexing, jobVars, serviceVars, sse>>
\* what a call of the validator on its own leaves alone
outsideValidator == <<managerVars, plannerVars, indexing, jobVars, serviceVars, sse>>

vars == <<workflows, steps, currentStep, isComplete, pc, pendingError,
          published, listeners, progressListeners, received, subscribes,
          invocations, toolArgs, inputBatch, survivors, validations,
          validationRaised,
          runStates, runPc, jobListeners, dbUp, jobRows, lastCall, sse,
          featureFlags, runtimeOverrides, lastPlan, indexing>>

----------------------------------------------------------------------------
(* Bounds of the model *)

\* longest segment batch an upstream result carries in SpecArgs
MaxBatch == 3
\* number of subscribe calls one handler makes in one behaviour
MaxSubscribes == 1

----------------------------------------------------------------------------
(* JavaScript value helpers *)

Undefined == << >>
Some(v) == <<v>>

\* typeof v === 'number' for an optional numeric field
IsNumber(v) == v # Undefined
\* truthiness of an optional string field (undefined and "" are falsy)
TruthyStr(v) == v # Undefined /\ v[1] # ""
\* truthiness of an optional numeric field (undefined and 0 are falsy)
TruthyNum(v) == v # Undefined /\ v[1] # 0
\* a || b on optional strings and on optional numbers
OrStr(a, b) == IF TruthyStr(a) THEN a ELSE b
OrNum(a, b) == IF TruthyNum(a) THEN a ELSE b
Max(a, b) == IF a >= b THEN a ELSE b

Null == [null |-> TRUE]

----------------------------------------------------------------------------
(* The file system and the paths the validator looks at *)

HttpPaths == {"https://cdn/c.mp4"}
ExistingFiles == {"/tmp/a.mp4", "/tmp/b.mp4", "/tmp/empty.mp4"}
EmptyFiles == {"/tmp/empty.mp4"}
BlankPaths == {"", " "}
\* a path field may hold a truthy value that is no string; "<42>" stands
\* for the number 42 in a path field
NonStringPaths == {"<42>"}
\* typeof p === 'string'
IsString(p) == p \notin NonStringPaths

\* filePath.startsWith('http://') || filePath.startsWith('https://')
IsHttp(p) == p \in HttpPaths
\* fs.existsSync(p)
existsSync(p) == p \in ExistingFiles
\* fs.statSync(p).size === 0
IsEmptyFile(p) == p \in EmptyFiles

----------------------------------------------------------------------------
(* Segments *)

Segment(st, et, fp, op, sc, rel, strat, dur) ==
    [startTime |-> st, endTime |-> et, filePath |-> fp, outputPath |-> op,
     score |-> sc, relevanceScore |-> rel, strategy |-> strat, duration |-> dur]

\* validateSegments, the call filePath.startsWith of line 119: it stands
\* outside the try of the file checks, and a truthy filePath that is no
\* string has no such method
ValidationThrows(segment) ==
    /\ segment # Null
    /\ TruthyStr(OrStr(segment.filePath, segment.outputPath))
    /\ ~IsString(OrStr(segment.filePath, segment.outputPath)[1])

\* faulty variant: the size of an existing file is not looked at
SegmentIssuesWithoutSize(segment) ==
    IF segment = Null THEN {"segment is null/undefined"}
    ELSE
      LET startTime == segment.startTime
          endTime   == segment.endTime
          filePath  == OrStr(segment.filePath, segment.outputPath)
          floor     == IF TruthyNum(startTime) THEN startTime[1] ELSE 0
      IN  (IF ~IsNumber(startTime) \/ startTime[1] < 0
             THEN {"invalid startTime"} ELSE {})
          \cup
          (IF ~IsNumber(endTime) \/ endTime[1] <= floor
             THEN {"invalid endTime"} ELSE {})
          \cup
          (IF ~TruthyStr(filePath) \/ ~IsString(filePath[1])
                \/ filePath[1] \in BlankPaths
             THEN {"missing or invalid filePath/outputPath"} ELSE {})
          \cup
          (IF filePath # Undefined /\ filePath[1] \in {"undefined", "null"}
             THEN {"filePath is literal string"} ELSE {})
          \cup
          (IF TruthyStr(filePath) /\ ~IsHttp(filePath[1]) /\ ~existsSync(filePath[1])
             THEN {"file does not exist"} ELSE {})

\* validateSegments, the checks made on one segment: the set of issues found
SegmentIssues(segment) ==
    IF segment = Null THEN {"segment is null/undefined"}
    ELSE
      LET startTime == segment.startTime
          endTime   == segment.endTime
          filePath  == OrStr(segment.filePath, segment.outputPath)
          floor     == IF TruthyNum(startTime) THEN startTime[1] ELSE 0
      IN  (IF ~IsNumber(startTime) \/ startTime[1] < 0
             THEN {"invalid startTime"} ELSE {})
          \cup
          (IF ~IsNumber(endTime) \/ endTime[1] <= floor
             THEN {"invalid endTime"} ELSE {})
          \cup
          (IF ~TruthyStr(filePath) \/ ~IsString(filePath[1])
                \/ filePath[1] \in BlankPaths
             THEN {"missing or invalid filePath/outputPath"} ELSE {})
          \cup
          (IF filePath # Undefined /\ filePath[1] \in {"undefined", "null"}
             THEN {"filePath is literal string"} ELSE {})
          \cup
          (IF TruthyStr(filePath) /\ ~IsHttp(filePath[1])
             THEN IF ~existsSync(filePath[1]) THEN {"file does not exist"}
                  ELSE IF IsEmptyFile(filePath[1]) THEN {"file is empty (0 bytes)"}
                  ELSE {}
             ELSE {})

PassesValidation(segment) == SegmentIssues(segment) = {}

\* faulty variant: one invalid segment makes the validator reject the batch
validateSegmentsAllOrNothing(segments) ==
    IF \A k \in 1..Len(segments) : PassesValidation(segments[k])
    THEN segments ELSE << >>

\* faulty variant: the validator loses the last segment that passed
validateSegmentsOffByOne(segments) ==
    LET valid == SelectSeq(segments, PassesValidation)
    IN  IF valid = << >> THEN << >> ELSE SubSeq(valid, 1, Len(valid) - 1)

\* validateSegments on an array: the segments without issues, in input order
validateSegments(segments) == SelectSeq(segments, PassesValidation)

\* validateSegments throws out of its forEach at the first segment whose
\* path check throws
validateSegmentsThrows(segments) ==
    \E k \in 1..Len(segments) : ValidationThrows(segments[k])

\* the default span and the default score of the transformation
DefaultSpan == 5
DefaultScore == 8

\* faulty variant: the transformation copies filePath and ignores outputPath
TransformSegmentFilePathOnly(segment) ==
    LET startTime == IF IsNumber(segment.startTime) THEN segment.startTime[1] ELSE 0
        endTime   == IF IsNumber(segment.endTime) THEN segment.endTime[1]
                     ELSE startTime + DefaultSpan
    IN  Segment(Some(startTime), Some(endTime), segment.filePath, Undefined,
                OrNum(OrNum(segment.score, segment.relevanceScore), Some(DefaultScore)),
                Undefined, OrStr(segment.strategy, Some("unknown")), Undefined)

\* the transformation both steps 3 and 4 apply to a validated segment
TransformSegment(segment) ==
    LET startTime == IF IsNumber(segment.startTime) THEN segment.startTime[1] ELSE 0
        endTime   == IF IsNumber(segment.endTime) THEN segment.endTime[1]
                     ELSE startTime + DefaultSpan
        span      == Max(1, OrNum(segment.duration, Some(DefaultSpan))[1])
    IN  Segment(Some(startTime),
                Some(IF endTime <= startTime THEN startTime + span ELSE endTime),
                OrStr(segment.filePath, segment.outputPath),
                Undefined,
                OrNum(OrNum(segment.score, segment.relevanceScore), Some(DefaultScore)),
                Undefined,
                OrStr(segment.strategy, Some("unknown")),
                Undefined)

\* segments.map(transform)
TransformAll(segments) == [i \in 1..Len(segments) |-> TransformSegment(segments[i])]

----------------------------------------------------------------------------
(* Step results *)

NoResult == [kind |-> "undefined"]
ArrayResult(items) == [kind |-> "array", items |-> items]
ObjectResult(segments, outputPath, publicUrl) ==
    [kind |-> "object", segments |-> segments, outputPath |-> outputPath,
     publicUrl |-> publicUrl]

\* a SmartCut as far as the coordinator looks into it
SmartCut(outputSegments) == [outputSegments |-> outputSegments]
\* an object that is neither a SmartCut nor a segment
Garbage == [garbage |-> TRUE]

\* result && Array.isArray(result) && result.length > 0
IsNonEmptyArray(result) == result.kind = "array" /\ Len(result.items) > 0
\* result?.segments && result.segments.length > 0
HasSegments(result) ==
    /\ result.kind = "object"
    /\ result.segments # Undefined
    /\ Len(result.segments[1]) > 0
\* finalStep.result?.publicUrl
PublicUrlOf(result) == IF result.kind = "object" THEN result.publicUrl ELSE Undefined
\* stitchResult?.outputPath || ''
InputPathOf(result) ==
    IF result.kind = "object" /\ TruthyStr(result.outputPath)
    THEN result.outputPath[1] ELSE ""

\* the flatMap callback of step 4 over one item of step 3's result
CutSegments(cut) ==
    IF cut = Null THEN << >>
    ELSE IF "outputSegments" \in DOMAIN cut THEN cut.outputSegments
    ELSE IF /\ "startTime" \in DOMAIN cut
            /\ cut.startTime # Undefined
            /\ cut.endTime # Undefined THEN <<cut>>
    ELSE << >>

\* step3Result.flatMap(callback)
RECURSIVE FlatMapCuts(_)
FlatMapCuts(items) ==
    IF items = << >> THEN << >>
    ELSE CutSegments(Head(items)) \o FlatMapCuts(Tail(items))

----------------------------------------------------------------------------
(* prepareToolArguments *)

WORKFLOW_SEQUENCE ==
    <<"query_semantic_index", "extract_highlight_segment", "apply_smart_cuts",
      "stitch_segments", "render_final_reel">>

NumSteps == Len(WORKFLOW_SEQUENCE)
StepIndex == 1..NumSteps

Min(a, b) == IF a <= b THEN a ELSE b

\* the data-flow logging reads item.startTime of the first three items of
\* every earlier array result: a null item raises a TypeError there
LoggingRaises(st, stepIndex) ==
    \E i \in 1..(stepIndex - 1) :
        /\ st[i].result.kind = "array"
        /\ \E k \in 1..Min(3, Len(st[i].result.items)) : st[i].result.items[k] = Null

Returned(args) == [raised |-> FALSE, error |-> "", args |-> args]
Raised(error) == [raised |-> TRUE, error |-> error, args |-> [none |-> TRUE]]

\* faulty variant: a source without valid segments always raises
PrepareSegmentsNoInput(chosen, emptyAfterValidation, emptyAfterTransform) ==
    LET preValidated == validateSegments(chosen)
    IN  IF Len(preValidated) = 0 THEN Raised("No input available")
        ELSE Returned([segments |-> validateSegments(TransformAll(preValidated))])

\* validation, transformation and second validation of the chosen segments
PrepareSegments(chosen, emptyAfterValidation, emptyAfterTransform) ==
    LET preValidated == validateSegments(chosen)
        transformed  == TransformAll(preValidated)
        finalValidated == validateSegments(transformed)
    IN  IF Len(preValidated) = 0 THEN emptyAfterValidation
        ELSE IF \E k \in 1..Len(preValidated) :
                   preValidated[k].endTime[1] <= preValidated[k].startTime[1]
             THEN Raised("Pre-transformation segment has invalid time values")
        ELSE IF \E k \in 1..Len(transformed) :
                   transformed[k].endTime[1] <= transformed[k].startTime[1]
             THEN Raised("Post-transformation segment has invalid time values")
        ELSE IF Len(finalValidated) = 0 THEN emptyAfterTransform
        ELSE Returned([segments |-> finalValidated])

\* faulty variant: step 3 passes over a non-empty step-2 result without valid segments
PrepareSmartCutsFallThrough(st) ==
    IF IsNonEmptyArray(st[2].result) /\ validateSegments(st[2].result.items) # << >>
    THEN PrepareSegments(st[2].result.items, Returned([segments |-> << >>]),
                         Raised("No valid segments available after transformation"))
    ELSE IF HasSegments(st[1].result)
    THEN PrepareSegments(st[1].result.segments[1], Returned([segments |-> << >>]),
                         Raised("No valid segments available after transformation"))
    ELSE Returned([segments |-> << >>])

\* faulty variant: step 3 raises when its source has no valid segment
PrepareSmartCutsStrict(st) ==
    IF IsNonEmptyArray(st[2].result) \/ HasSegments(st[1].result)
    THEN PrepareSegments(
            IF IsNonEmptyArray(st[2].result) THEN st[2].result.items
            ELSE st[1].result.segments[1],
            Raised("No valid segments available for smart cuts"),
            Raised("No valid segments available after transformation for smart cuts processing"))
    ELSE Raised("No segments available for smart cuts")

\* case 'apply_smart_cuts'
PrepareSmartCuts(st) ==
    IF IsNonEmptyArray(st[2].result) \/ HasSegments(st[1].result)
    THEN PrepareSegments(
            IF IsNonEmptyArray(st[2].result) THEN st[2].result.items
            ELSE st[1].result.segments[1],
            Returned([segments |-> << >>]),
            Raised("No valid segments available after transformation for smart cuts processing"))
    ELSE Returned([segments |-> << >>])

\* faulty variant: step 4 passes an empty list on, as step 3 does
PrepareStitchLenient(st) ==
    IF \/ IsNonEmptyArray(st[3].result)
       \/ IsNonEmptyArray(st[2].result)
       \/ HasSegments(st[1].result)
    THEN PrepareSegments(
            IF IsNonEmptyArray(st[3].result)
              THEN FlatMapCuts(st[3].result.items)
            ELSE IF IsNonEmptyArray(st[2].result) THEN st[2].result.items
            ELSE st[1].result.segments[1],
            Returned([segments |-> << >>]),
            Raised("No valid segments available after transformation for stitching"))
    ELSE Returned([segments |-> << >>])

\* case 'stitch_segments'
PrepareStitch(st) ==
    IF \/ IsNonEmptyArray(st[3].result)
       \/ IsNonEmptyArray(st[2].result)
       \/ HasSegments(st[1].result)
    THEN PrepareSegments(
            IF IsNonEmptyArray(st[3].result)
              THEN FlatMapCuts(st[3].result.items)
            ELSE IF IsNonEmptyArray(st[2].result) THEN st[2].result.items
            ELSE st[1].result.segments[1],
            Raised("No valid segments available for stitching"),
            Raised("No valid segments available after transformation for stitching"))
    ELSE Raised("No segments available for stitching across all workflow steps")

prepareToolArguments(st, stepIndex) ==
    IF LoggingRaises(st, stepIndex)
      THEN Raised("Cannot read properties of null (reading 'startTime')")
    ELSE IF stepIndex = 1 THEN Returned([goal |-> "goal"])
    ELSE IF stepIndex = 2
      THEN Returned([input_segments |->
                       IF st[1].result.kind = "object" /\ st[1].result.segments # Undefined
                       THEN st[1].result.segments[1] ELSE << >>])
    ELSE IF stepIndex = 3 THEN PrepareSmartCuts(st)
    ELSE IF stepIndex = 4 THEN PrepareStitch(st)
    ELSE Returned([input_path |-> InputPathOf(st[4].result)])

----------------------------------------------------------------------------
(* Workflow messages and the progress tracker *)

JobId == "job-1"

\* no call has been made
NoCall == [op |-> "none"]

\* a call and how it ended: the value it returned or that it raised
Call(op, jobId, raised, result) ==
    [op |-> op, jobId |-> jobId, raised |-> raised, result |-> result]

\* the row INSERT INTO jobs creates
NewRow == [status |-> "pending", progress |-> 0]

\* the job has a row in the jobs table
HasRow(j) == j \in DOMAIN jobRows

\* no call has planned filters
NoPlan == [fn |-> "none"]

\* no video was uploaded for indexing
NoIndexing ==
    [phase |-> "idle", at |-> 0, generateTranscript |-> FALSE,
     cleanupTempFiles |-> FALSE]
\* defaultFlags with no environment variable set
defaultFlags ==
    [ENABLE_FADE_EFFECTS |-> TRUE, ENABLE_FADE_OUT_EFFECTS |-> TRUE,
     USE_SAFE_FADE_FALLBACK |-> FALSE, SKIP_FADE_ON_DURATION_ERROR |-> TRUE,
     EMERGENCY_DISABLE_ALL_EFFECTS |-> FALSE, FORCE_FALLBACK_MODE |-> FALSE]

\* no progress stream was requested.  state: "none", "open" or "ended";
\* statusSent: the current status was sent and the 'close' handler of the
\* request is registered; clientGone: the request emitted 'close'; fired:
\* close timers that have fired; closeMarkers: close markers written;
\* endedAt: how many events the callbacks had been handed when res.end() ran
NoStream ==
    [state |-> "none", statusSent |-> FALSE, clientGone |-> FALSE, fired |-> 0,
     closeMarkers |-> 0, endedAt |-> 0]

\* the handlers a behaviour may subscribe
Handlers == DOMAIN received

WorkflowMessage(type, stepNumber, toolName, downloadUrl, message) ==
    [type |-> type, jobId |-> JobId, stepNumber |-> stepNumber,
     toolName |-> toolName, downloadUrl |-> downloadUrl, message |-> message]

\* progressEmitter.emit(`workflow_message:${jobId}`, m): the listeners are
\* called in registration order; when the listener at position thrower
\* throws, the later ones are not called and emit raises (thrower = 0: none)
Throwers == 0..Len(listeners)
Reached(thrower) ==
    {listeners[k] : k \in 1..(IF thrower = 0 THEN Len(listeners) ELSE thrower)}

\* sendWorkflowMessage: emits and rethrows what emit raised
sendWorkflowMessage(m, thrower) ==
    /\ published' = Append(published, m)
    /\ received' = [h \in Handlers |->
                      IF h \in Reached(thrower) THEN Append(received[h], m)
                      ELSE received[h]]
    /\ UNCHANGED <<listeners, progressListeners, subscribes>>

HandlerError == "listener threw"

\* faulty variant: a new subscriber is handed the job's earlier workflow events
subscribeToWorkflowMessagesReplay(h) ==
    /\ subscribes[h] < MaxSubscribes
    /\ \A k \in 1..Len(listeners) : listeners[k] # h
    /\ listeners' = Append(listeners, h)
    /\ subscribes' = [subscribes EXCEPT ![h] = @ + 1]
    /\ received' = [received EXCEPT
                      ![h] = @ \o SelectSeq(published, LAMBDA m : m.type # "progress")]
    /\ UNCHANGED <<workflows, steps, currentStep, isComplete, pc, pendingError,
                   published, progressListeners, invocations, toolArgs>>
    /\ UNCHANGED outsideManager

\* faulty variant: a new subscriber is sent the events published so far
subscribeWithReplay(h) ==
    /\ subscribes[h] < MaxSubscribes
    /\ \A k \in 1..Len(listeners) : listeners[k] # h
    /\ listeners' = Append(listeners, h)
    /\ subscribes' = [subscribes EXCEPT ![h] = @ + 1]
    /\ received' = [received EXCEPT ![h] = @ \o published]
    /\ UNCHANGED <<workflows, steps, currentStep, isComplete, pc, pendingError,
                   published, progressListeners, invocations, toolArgs>>
    /\ UNCHANGED outsideManager

\* subscribeToWorkflowMessages(jobId, callback)
subscribeToWorkflowMessages(h) ==
    /\ subscribes[h] < MaxSubscribes
    /\ \A k \in 1..Len(listeners) : listeners[k] # h
    /\ listeners' = Append(listeners, h)
    /\ subscribes' = [subscribes EXCEPT ![h] = @ + 1]
    /\ UNCHANGED <<workflows, steps, currentStep, isComplete, pc, pendingError,
                   published, progressListeners, received, invocations, toolArgs>>
    /\ UNCHANGED outsideManager

\* faulty variant: unsubscribing removes every listener of the channel
unsubscribeAll(h) ==
    /\ \E k \in 1..Len(listeners) : listeners[k] = h
    /\ listeners' = << >>
    /\ UNCHANGED <<workflows, steps, currentStep, isComplete, pc, pendingError,
                   published, progressListeners, received, subscribes, invocations,
                   toolArgs>>
    /\ UNCHANGED outsideManager

\* the unsubscribe function subscribeToWorkflowMessages returned
unsubscribe(h) ==
    /\ \E k \in 1..Len(listeners) : listeners[k] = h
    /\ listeners' = SelectSeq(listeners, LAMBDA x : x # h)
    /\ UNCHANGED <<workflows, steps, currentStep, isComplete, pc, pendingError,
                   published, progressListeners, received, subscribes, invocations,
                   toolArgs>>
    /\ UNCHANGED outsideManager

\* the update updateProgress emits on progress:<jobId>, tagged with the
\* name of its event
ProgressUpdate(status, progress) ==
    [type |-> "progress", jobId |-> JobId, status |-> status,
     progress |-> progress, stepNumber |-> Undefined, toolName |-> Undefined, downloadUrl |-> Undefined,
     message |-> Some("progress")]

\* number of calls of updateProgress in one behaviour
MaxUpdates == 1

\* subscribeToJob(jobId, callback)
subscribeToJob(h) ==
    /\ subscribes[h] < MaxSubscribes
    /\ \A k \in 1..Len(progressListeners) : progressListeners[k] # h
    /\ progressListeners' = Append(progressListeners, h)
    /\ subscribes' = [subscribes EXCEPT ![h] = @ + 1]
    /\ UNCHANGED <<workflows, steps, currentStep, isComplete, pc, pendingError,
                   published, listeners, received, invocations, toolArgs>>
    /\ UNCHANGED outsideManager

\* the unsubscribe function subscribeToJob returned
unsubscribeFromJob(h) ==
    /\ \E k \in 1..Len(progressListeners) : progressListeners[k] = h
    /\ progressListeners' = SelectSeq(progressListeners, LAMBDA x : x # h)
    /\ UNCHANGED <<workflows, steps, currentStep, isComplete, pc, pendingError,
                   published, listeners, received, subscribes, invocations,
                   toolArgs>>
    /\ UNCHANGED outsideManager

\* the body of updateProgress: the UPDATE of the job's row (a failing
\* database is logged), then the emit to the subscribers of the job up to
\* the one that throws
publishProgress(status, progress, thrower) ==
    /\ jobRows' = IF dbUp /\ HasRow(JobId)
                    THEN [jobRows EXCEPT ![JobId] = [status |-> status, progress |-> progress]]
                    ELSE jobRows
    /\ published' = Append(published, ProgressUpdate(status, progress))
    /\ received' =
          [h \in Handlers |->
             IF \E k \in 1..(IF thrower = 0 THEN Len(progressListeners) ELSE thrower) :
                   progressListeners[k] = h
             THEN Append(received[h], ProgressUpdate(status, progress))
             ELSE received[h]]

\* faulty variant: a failing database update is rethrown before the emit
updateProgressStrict(status, progress, thrower) ==
    /\ Len(SelectSeq(published, LAMBDA m : m.type = "progress")) < MaxUpdates
    /\ thrower \in 0..Len(progressListeners)
    /\ jobRows' = IF dbUp /\ HasRow(JobId)
                    THEN [jobRows EXCEPT ![JobId] = [status |-> status, progress |-> progress]]
                    ELSE jobRows
    /\ lastCall' = Call("updateProgress", JobId, thrower # 0 \/ ~dbUp, Null)
    /\ IF dbUp
       THEN /\ published' = Append(published, ProgressUpdate(status, progress))
            /\ received' =
                  [h \in Handlers |->
                     IF \E k \in 1..(IF thrower = 0 THEN Len(progressListeners) ELSE thrower) :
                           progressListeners[k] = h
                     THEN Append(received[h], ProgressUpdate(status, progress))
                     ELSE received[h]]
       ELSE UNCHANGED <<published, received>>
    /\ UNCHANGED <<workflows, steps, currentStep, isComplete, pc, pendingError,
                   listeners, progressListeners, subscribes, invocations, toolArgs>>
    /\ UNCHANGED <<validatorVars, plannerVars, indexing, jobVars, dbUp, sse>>

\* updateProgress(jobId, status, ...): the UPDATE of the job's row (a failing
\* database is logged, not rethrown), then the update is emitted on
\* progress:<jobId>; what a listener throws goes to the caller
updateProgress(status, progress, thrower) ==
    /\ Len(SelectSeq(published, LAMBDA m : m.type = "progress")) < MaxUpdates
    /\ thrower \in 0..Len(progressListeners)
    /\ publishProgress(status, progress, thrower)
    /\ lastCall' = Call("updateProgress", JobId, thrower # 0, Null)
    /\ UNCHANGED <<workflows, steps, currentStep, isComplete, pc, pendingError,
                   listeners, progressListeners, subscribes, invocations, toolArgs>>
    /\ UNCHANGED <<validatorVars, plannerVars, indexing, jobVars, dbUp, sse>>

----------------------------------------------------------------------------
(* Tool executors (the tool bodies are external collaborators) *)

\* a step-1 segment as query_semantic_index builds it (no file path)
SemanticSegment ==
    Segment(Some(0), Some(4), Undefined, Undefined, Undefined, Some(7), Undefined, Some(4))
\* a step-1 segment that carries a file path
SemanticSegmentWithPath ==
    Segment(Some(0), Some(4), Some("/tmp/b.mp4"), Undefined, Undefined, Some(7),
            Undefined, Some(4))
\* a step-2 segment as extract_highlight_segment builds it (outputPath)
HighlightSegment ==
    Segment(Some(1), Some(3), Undefined, Some("/tmp/a.mp4"), Some(9), Undefined,
            Some("peak_energy"), Undefined)
\* a step-2 segment whose path is the literal string "undefined"
BrokenSegment ==
    Segment(Some(1), Some(3), Some("undefined"), Undefined, Some(9), Undefined,
            Some("peak_energy"), Undefined)

Step1Results ==
    {ObjectResult(Some(<< >>), Undefined, Undefined),
     ObjectResult(Some(<<SemanticSegment>>), Undefined, Undefined),
     ObjectResult(Some(<<SemanticSegmentWithPath>>), Undefined, Undefined)}
Step2Results ==
    {ArrayResult(<< >>), ArrayResult(<<HighlightSegment>>),
     ArrayResult(<<BrokenSegment>>)}
Step5Results ==
    {ObjectResult(Undefined, Some("/tmp/final.mp4"), Some("https://cdn/reel.mp4")),
     ObjectResult(Undefined, Some("/tmp/final.mp4"), Undefined)}

WrapSegment(segment) == SmartCut(<<segment>>)
\* the SmartCut array apply_smart_cuts returns for its segments
WrapAll(segments) == [i \in 1..Len(segments) |-> WrapSegment(segments[i])]

\* what the executor of a step may return for the arguments it was given
ToolResults(stepIndex, args) ==
    IF stepIndex = 1 THEN Step1Results
    ELSE IF stepIndex = 2 THEN Step2Results
    ELSE IF stepIndex = 3
      THEN {ArrayResult(WrapAll(args.segments))}
    ELSE IF stepIndex = 4
      THEN IF args.segments = << >> THEN {}
           ELSE {ObjectResult(Undefined, Some("/tmp/stitched.mp4"), Undefined)}
    ELSE Step5Results

\* whether the executor of a step can reject: query_semantic_index and
\* extract_highlight_segment catch every error and return an empty result,
\* apply_smart_cuts returns [] for an empty list before doing anything else
ToolMayThrow(stepIndex, args) ==
    \/ stepIndex = 3 /\ args.segments # << >>
    \/ stepIndex \in {4, 5}

----------------------------------------------------------------------------
(* WorkflowManager *)

NoArgs == [none |-> TRUE]

\* the validator has not been called
ValidatorIdle ==
    /\ inputBatch = << >>
    /\ survivors = << >>
    /\ validations = 0
    /\ validationRaised = FALSE

\* no second job is known
JobsIdle ==
    /\ runStates = << >>
    /\ runPc = << >>
    /\ jobListeners = << >>

\* the database is up and holds the job's row; nobody called the service
ServiceIdle ==
    /\ dbUp = TRUE
    /\ jobRows = [j \in {"job-1"} |-> NewRow]
    /\ lastCall = NoCall
    /\ sse = NoStream

\* the flags are the defaults of feature-flags.ts, nothing overrides them
\* and no filters were planned
PlannerIdle ==
    /\ featureFlags = defaultFlags
    /\ runtimeOverrides = << >>
    /\ lastPlan = NoPlan

IndexingIdle == indexing = NoIndexing

\* nothing but the manager and the tracker has acted
OutsideManagerIdle ==
    /\ ValidatorIdle
    /\ PlannerIdle
    /\ IndexingIdle
    /\ JobsIdle
    /\ ServiceIdle

Init ==
    /\ OutsideManagerIdle
    /\ workflows = {}
    /\ steps = << >>
    /\ currentStep = 0
    /\ isComplete = FALSE
    /\ pc = "idle"
    /\ pendingError = ""
    /\ published = << >>
    /\ listeners = << >>
    /\ progressListeners = << >>
    /\ received = [h \in {"h1"} |-> << >>]
    /\ subscribes = [h \in {"h1"} |-> 0]
    /\ invocations = [i \in StepIndex |-> 0]
    /\ toolArgs = [i \in StepIndex |-> NoArgs]

\* the steps array startWorkflow builds from WORKFLOW_SEQUENCE
InitialSteps ==
    [i \in StepIndex |->
        [stepNumber |-> i, toolName |-> WORKFLOW_SEQUENCE[i], status |-> "pending",
         result |-> NoResult, reflection |-> Undefined]]

\* startWorkflow up to the first await of executeWorkflow: the state is put
\* into the map and initial_response is sent
startWorkflow(thrower) ==
    /\ pc = "idle"
    /\ steps' = InitialSteps
    /\ workflows' = workflows \cup {JobId}
    /\ sendWorkflowMessage(
          WorkflowMessage("initial_response", Undefined, Undefined, Undefined,
                          Some("I'll help you create a video reel")), thrower)
    /\ pc' = IF thrower = 0 THEN "loop" ELSE "handleError"
    /\ pendingError' = IF thrower = 0 THEN "" ELSE HandlerError
    /\ UNCHANGED <<currentStep, isComplete, invocations, toolArgs>>
    /\ UNCHANGED outsideManager

\* faulty variant: the loop does not await the running tool before the next step
executeStepNoAwait(thrower) ==
    /\ pc \in {"loop", "toolRunning"}
    /\ currentStep < NumSteps
    /\ LET i == currentStep + 1 IN
         /\ currentStep' = i
         /\ steps' = [steps EXCEPT ![i].status = "executing"]
         /\ sendWorkflowMessage(
               WorkflowMessage("tool_start", Some(i), Some(steps[i].toolName),
                               Undefined, Some("Executing")), thrower)
    /\ pc' = IF thrower = 0 THEN "prepare" ELSE "stepCatch"
    /\ pendingError' = IF thrower = 0 THEN "" ELSE HandlerError
    /\ UNCHANGED <<workflows, isComplete, invocations, toolArgs>>
    /\ UNCHANGED outsideManager

\* the for loop of executeWorkflow enters executeStep(state, i): the step
\* becomes 'executing' and tool_start is sent
executeStep(thrower) ==
    /\ pc = "loop"
    /\ currentStep < NumSteps
    /\ LET i == currentStep + 1 IN
         /\ currentStep' = i
         /\ steps' = [steps EXCEPT ![i].status = "executing"]
         /\ sendWorkflowMessage(
               WorkflowMessage("tool_start", Some(i), Some(steps[i].toolName),
                               Undefined, Some("Executing")), thrower)
    /\ pc' = IF thrower = 0 THEN "prepare" ELSE "stepCatch"
    /\ pendingError' = IF thrower = 0 THEN "" ELSE HandlerError
    /\ UNCHANGED <<workflows, isComplete, invocations, toolArgs>>
    /\ UNCHANGED outsideManager

\* executeStep: prepareToolArguments, then the tool executor is called
invokeTool ==
    /\ pc = "prepare"
    /\ LET prepared == prepareToolArguments(steps, currentStep) IN
         IF prepared.raised
         THEN /\ pc' = "stepCatch"
              /\ pendingError' = prepared.error
              /\ UNCHANGED <<invocations, toolArgs>>
         ELSE /\ pc' = "toolRunning"
              /\ invocations' = [invocations EXCEPT ![currentStep] = @ + 1]
              /\ toolArgs' = [toolArgs EXCEPT ![currentStep] = prepared.args]
              /\ UNCHANGED pendingError
    /\ UNCHANGED <<workflows, steps, currentStep, isComplete, published, listeners, progressListeners,
                   received, subscribes>>
    /\ UNCHANGED outsideManager

\* faulty variant: tool_complete is sent without the step having become 'completed'
toolReturnsStatusForgotten(thrower) ==
    /\ pc = "toolRunning"
    /\ \E toolResult \in ToolResults(currentStep, toolArgs[currentStep]) :
         steps' = [steps EXCEPT ![currentStep].result = toolResult]
    /\ sendWorkflowMessage(
          WorkflowMessage("tool_complete", Some(currentStep),
                          Some(steps[currentStep].toolName), Undefined,
                          Some("completed")), thrower)
    /\ pc' = IF thrower = 0 THEN "reflect" ELSE "stepCatch"
    /\ pendingError' = IF thrower = 0 THEN "" ELSE HandlerError
    /\ UNCHANGED <<workflows, currentStep, isComplete, invocations, toolArgs>>
    /\ UNCHANGED outsideManager

\* executeStep: the tool executor resolved; the result is stored, the step
\* becomes 'completed' and tool_complete is sent
toolReturns(thrower) ==
    /\ pc = "toolRunning"
    /\ \E toolResult \in ToolResults(currentStep, toolArgs[currentStep]) :
         steps' = [steps EXCEPT ![currentStep].result = toolResult,
                                ![currentStep].status = "completed"]
    /\ sendWorkflowMessage(
          WorkflowMessage("tool_complete", Some(currentStep),
                          Some(steps[currentStep].toolName), Undefined,
                          Some("completed")), thrower)
    /\ pc' = IF thrower = 0 THEN "reflect" ELSE "stepCatch"
    /\ pendingError' = IF thrower = 0 THEN "" ELSE HandlerError
    /\ UNCHANGED <<workflows, currentStep, isComplete, invocations, toolArgs>>
    /\ UNCHANGED outsideManager

\* executeStep: the tool executor rejected
toolThrows ==
    /\ pc = "toolRunning"
    /\ ToolMayThrow(currentStep, toolArgs[currentStep])
    /\ pc' = "stepCatch"
    /\ pendingError' = "tool failed"
    /\ UNCHANGED <<workflows, steps, currentStep, isComplete, published, listeners, progressListeners,
                   received, subscribes, invocations, toolArgs>>
    /\ UNCHANGED outsideManager

\* generateStepReflection got a completion and stored its content (or the
\* default sentence) as step.reflection, then executeStep sends tool_reflection
generateStepReflection(thrower) ==
    /\ pc = "reflect"
    /\ steps' = [steps EXCEPT ![currentStep].reflection = Some("reflection")]
    /\ sendWorkflowMessage(
          WorkflowMessage("tool_reflection", Some(currentStep),
                          Some(steps[currentStep].toolName), Undefined,
                          Some("reflection")), thrower)
    /\ pc' = IF thrower = 0 THEN "loop" ELSE "stepCatch"
    /\ pendingError' = IF thrower = 0 THEN "" ELSE HandlerError
    /\ UNCHANGED <<workflows, currentStep, isComplete, invocations, toolArgs>>
    /\ UNCHANGED outsideManager

\* generateStepReflection: the completion request rejected; the catch block
\* assigns step.reflection, but step is declared inside the try block, so
\* the catch block itself raises a ReferenceError into executeStep
reflectionFails ==
    /\ pc = "reflect"
    /\ pc' = "stepCatch"
    /\ pendingError' = "step is not defined"
    /\ UNCHANGED <<workflows, steps, currentStep, isComplete, published, listeners, progressListeners,
                   received, subscribes, invocations, toolArgs>>
    /\ UNCHANGED outsideManager

\* faulty variant: the catch block swallows the error and the loop goes on
executeStepCatchSwallow ==
    /\ pc = "stepCatch"
    /\ steps' = [steps EXCEPT ![currentStep].status = "failed"]
    /\ pc' = "loop"
    /\ UNCHANGED <<workflows, currentStep, isComplete, pendingError, published,
                   listeners, progressListeners, received, subscribes, invocations, toolArgs>>
    /\ UNCHANGED outsideManager

\* faulty variant: the catch block runs the failed step's tool again (once)
executeStepCatchRetry ==
    /\ pc = "stepCatch"
    /\ IF invocations[currentStep] = 1
       THEN /\ pc' = "prepare"
            /\ UNCHANGED steps
       ELSE /\ pc' = "handleError"
            /\ steps' = [steps EXCEPT ![currentStep].status = "failed"]
    /\ UNCHANGED <<workflows, currentStep, isComplete, pendingError, published,
                   listeners, progressListeners, received, subscribes, invocations, toolArgs>>
    /\ UNCHANGED outsideManager

\* the catch block of executeStep: the step becomes 'failed', the error is
\* rethrown into the catch block of executeWorkflow
executeStepCatch ==
    /\ pc = "stepCatch"
    /\ steps' = [steps EXCEPT ![currentStep].status = "failed"]
    /\ pc' = "handleError"
    /\ UNCHANGED <<workflows, currentStep, isComplete, pendingError, published,
                   listeners, progressListeners, received, subscribes, invocations, toolArgs>>
    /\ UNCHANGED outsideManager

\* faulty variant: what sending the error message raises leaves
\* handleWorkflowError and startWorkflow rejects
handleWorkflowErrorRethrow(thrower) ==
    /\ pc = "handleError"
    /\ sendWorkflowMessage(
          WorkflowMessage("error", Undefined, Undefined, Undefined,
                          Some(pendingError)), thrower)
    /\ workflows' = IF thrower = 0 THEN workflows \ {JobId} ELSE workflows
    /\ pc' = IF thrower = 0 THEN "done" ELSE "rejected"
    /\ UNCHANGED <<steps, currentStep, isComplete, pendingError, invocations, toolArgs>>
    /\ UNCHANGED outsideManager

\* faulty variant: when sending the error message raises, the catch block
\* reports the cleanup error as a workflow error once more
handleWorkflowErrorAgain(thrower) ==
    /\ pc = "handleError"
    /\ sendWorkflowMessage(
          WorkflowMessage("error", Undefined, Undefined, Undefined,
                          Some(pendingError)), thrower)
    /\ workflows' = IF thrower = 0 THEN workflows \ {JobId} ELSE workflows
    /\ pc' = IF thrower = 0 THEN "done" ELSE "handleError"
    /\ UNCHANGED <<steps, currentStep, isComplete, pendingError, invocations, toolArgs>>
    /\ UNCHANGED outsideManager

\* handleWorkflowError: the error message is sent and the state is deleted;
\* when sending raises, the catch block logs and the delete is skipped
handleWorkflowError(thrower) ==
    /\ pc = "handleError"
    /\ sendWorkflowMessage(
          WorkflowMessage("error", Undefined, Undefined, Undefined,
                          Some(pendingError)), thrower)
    /\ workflows' = IF thrower = 0 THEN workflows \ {JobId} ELSE workflows
    /\ pc' = "done"
    /\ UNCHANGED <<steps, currentStep, isComplete, pendingError, invocations, toolArgs>>
    /\ UNCHANGED outsideManager

\* faulty variant: the completion event also writes the status it was
\* converted to into the job's row
completeWorkflowUpdatingJob(thrower) ==
    /\ pc = "loop"
    /\ currentStep = NumSteps
    /\ isComplete' = TRUE
    /\ sendWorkflowMessage(
          WorkflowMessage("workflow_complete", Undefined, Undefined,
                          PublicUrlOf(steps[NumSteps].result),
                          Some("Workflow completed successfully")), thrower)
    /\ workflows' = IF thrower = 0 THEN workflows \ {JobId} ELSE workflows
    /\ pc' = "done"
    /\ jobRows' = IF dbUp /\ HasRow(JobId)
                    THEN [jobRows EXCEPT ![JobId] = [status |-> "completed", progress |-> 100]]
                    ELSE jobRows
    /\ UNCHANGED <<steps, currentStep, pendingError, invocations, toolArgs>>
    /\ UNCHANGED <<validatorVars, plannerVars, indexing, jobVars, dbUp, lastCall, sse>>

\* faulty variant: completeWorkflow lets the error of sending escape into the catch
\* block of executeWorkflow, which reports it as a workflow error
completeWorkflowRethrow(thrower) ==
    /\ pc = "loop"
    /\ currentStep = NumSteps
    /\ isComplete' = TRUE
    /\ sendWorkflowMessage(
          WorkflowMessage("workflow_complete", Undefined, Undefined,
                          PublicUrlOf(steps[NumSteps].result),
                          Some("Workflow completed successfully")), thrower)
    /\ workflows' = IF thrower = 0 THEN workflows \ {JobId} ELSE workflows
    /\ pc' = IF thrower = 0 THEN "done" ELSE "handleError"
    /\ pendingError' = IF thrower = 0 THEN pendingError ELSE HandlerError
    /\ UNCHANGED <<steps, currentStep, invocations, toolArgs>>
    /\ UNCHANGED outsideManager

\* faulty variant: the download URL is read from the stitch step instead of the last step
completeWorkflowWrongStep(thrower) ==
    /\ pc = "loop"
    /\ currentStep = NumSteps
    /\ isComplete' = TRUE
    /\ sendWorkflowMessage(
          WorkflowMessage("workflow_complete", Undefined, Undefined,
                          PublicUrlOf(steps[NumSteps - 1].result),
                          Some("Workflow completed successfully")), thrower)
    /\ workflows' = IF thrower = 0 THEN workflows \ {JobId} ELSE workflows
    /\ pc' = "done"
    /\ UNCHANGED <<steps, currentStep, pendingError, invocations, toolArgs>>
    /\ UNCHANGED outsideManager

\* the loop of executeWorkflow ended: isComplete is set and completeWorkflow
\* sends workflow_complete and deletes the state; when sending raises, the
\* catch block logs and the delete is skipped
completeWorkflow(thrower) ==
    /\ pc = "loop"
    /\ currentStep = NumSteps
    /\ isComplete' = TRUE
    /\ sendWorkflowMessage(
          WorkflowMessage("workflow_complete", Undefined, Undefined,
                          PublicUrlOf(steps[NumSteps].result),
                          Some("Workflow completed successfully")), thrower)
    /\ workflows' = IF thrower = 0 THEN workflows \ {JobId} ELSE workflows
    /\ pc' = "done"
    /\ UNCHANGED <<steps, currentStep, pendingError, invocations, toolArgs>>
    /\ UNCHANGED outsideManager

Next ==
    \/ \E t \in Throwers : startWorkflow(t)
    \/ \E t \in Throwers : executeStep(t)
    \/ invokeTool
    \/ \E t \in Throwers : toolReturns(t)
    \/ toolThrows
    \/ \E t \in Throwers : generateStepReflection(t)
    \/ reflectionFails
    \/ executeStepCatch
    \/ \E t \in Throwers : handleWorkflowError(t)
    \/ \E t \in Throwers : completeWorkflow(t)
    \/ \E h \in Handlers : subscribeToWorkflowMessages(h)
    \/ \E h \in Handlers : unsubscribe(h)

Spec == Init /\ [][Next]_vars

\* executeAgentWorkflow after its await of startWorkflow: when startWorkflow
\* resolved (pc "done") it returns success; when it rejected (pc
\* "rejected", which no step of the manager leads to) the catch publishes
\* the status 'failed' and rethrows
executeAgentWorkflowSettles ==
    /\ pc \in {"done", "rejected"}
    /\ lastCall.op # "executeAgentWorkflow"
    /\ IF pc = "done"
       THEN /\ lastCall' = Call("executeAgentWorkflow", JobId, FALSE,
                                [success |-> TRUE])
            /\ UNCHANGED <<published, received, jobRows>>
       ELSE /\ lastCall' = Call("executeAgentWorkflow", JobId, TRUE, Null)
            /\ publishProgress("failed", 0, 0)
    /\ UNCHANGED <<workflows, steps, currentStep, isComplete, pc, pendingError,
                   listeners, progressListeners, subscribes, invocations, toolArgs>>
    /\ UNCHANGED <<validatorVars, plannerVars, indexing, jobVars, dbUp, sse>>

\* the run of Spec as executeAgentWorkflow starts and awaits it
NextAgent ==
    \/ Next
    \/ executeAgentWorkflowSettles

SpecAgent == Init /\ [][NextAgent]_vars

\* the steps of the coordinator's call chain: every await of the chain is
\* eventually resumed, every tool call and reflection returns or throws
RunSteps ==
    \/ \E t \in Throwers : startWorkflow(t)
    \/ \E t \in Throwers : executeStep(t)
    \/ invokeTool
    \/ \E t \in Throwers : toolReturns(t)
    \/ toolThrows
    \/ \E t \in Throwers : generateStepReflection(t)
    \/ reflectionFails
    \/ executeStepCatch
    \/ \E t \in Throwers : handleWorkflowError(t)
    \/ \E t \in Throwers : completeWorkflow(t)

\* the runs of Spec in which the call chain is never left waiting forever
SpecLive == Spec /\ WF_vars(RunSteps)

----------------------------------------------------------------------------
(* Argument preparation over arbitrary upstream results.  The run has     *)
(* completed step 1 with a result drawn from a bounded set, nobody        *)
(* listens, and steps 2 and 3 may return any of a set of results,         *)
(* well-formed or not.                                                    *)

\* a second step-2 segment, on another file
SecondHighlight ==
    Segment(Some(5), Some(9), Undefined, Some("/tmp/b.mp4"), Some(6), Undefined,
            Some("face_focus"), Undefined)
\* a segment that carries both path fields
BothPathsSegment ==
    Segment(Some(2), Some(6), Some("/tmp/a.mp4"), Some("/tmp/b.mp4"), Some(6),
            Undefined, Some("peak_energy"), Undefined)
\* a segment whose file is not on disk
MissingFileSegment ==
    Segment(Some(2), Some(5), Some("/tmp/missing.mp4"), Undefined, Some(6), Undefined,
            Some("peak_energy"), Undefined)
\* a segment stored behind a URL
RemoteSegment ==
    Segment(Some(2), Some(5), Some("https://cdn/c.mp4"), Undefined, Some(6), Undefined,
            Some("peak_energy"), Undefined)
\* segments with malformed time fields: zero span, negative start, end
\* before start, no times at all
ZeroSpanSegment ==
    Segment(Some(0), Some(0), Some("/tmp/a.mp4"), Undefined, Some(6), Undefined,
            Undefined, Some(3))
NegativeStartSegment ==
    Segment(Some(-1), Some(3), Some("/tmp/a.mp4"), Undefined, Some(6), Undefined,
            Undefined, Undefined)
ReversedSegment ==
    Segment(Some(4), Some(2), Some("/tmp/a.mp4"), Undefined, Some(6), Undefined,
            Undefined, Undefined)
TimelessSegment ==
    Segment(Undefined, Undefined, Some("/tmp/a.mp4"), Undefined, Some(6), Undefined,
            Undefined, Undefined)
MalformedSegments ==
    {ZeroSpanSegment, NegativeStartSegment, ReversedSegment, TimelessSegment}
\* a segment whose filePath is the empty string and whose outputPath is set
EmptyPathSegment ==
    Segment(Some(2), Some(6), Some(""), Some("/tmp/b.mp4"), Some(6), Undefined,
            Some("peak_energy"), Undefined)
\* a segment scored 0 that also carries a relevanceScore
ZeroScoreSegment ==
    Segment(Some(1), Some(3), Undefined, Some("/tmp/a.mp4"), Some(0), Some(7),
            Some("peak_energy"), Undefined)

RECURSIVE SeqsUpTo(_, _)
SeqsUpTo(S, n) ==
    IF n = 0 THEN {<< >>}
    ELSE SeqsUpTo(S, n - 1) \cup
         {Append(q, x) : q \in {r \in SeqsUpTo(S, n - 1) : Len(r) = n - 1}, x \in S}

ArgsStep1Results ==
    {ObjectResult(Undefined, Undefined, Undefined),
     ObjectResult(Some(<< >>), Undefined, Undefined),
     ObjectResult(Some(<<SemanticSegment>>), Undefined, Undefined),
     ObjectResult(Some(<<SemanticSegmentWithPath>>), Undefined, Undefined),
     ObjectResult(Some(<<ReversedSegment, SemanticSegmentWithPath>>), Undefined, Undefined),
     ObjectResult(Some(<<ZeroSpanSegment, TimelessSegment>>), Undefined, Undefined)}
ArgsStep2Results ==
    {NoResult} \cup
    {ArrayResult(b) :
        b \in SeqsUpTo({HighlightSegment, SecondHighlight, BrokenSegment}, MaxBatch)} \cup
    {ArrayResult(<<m>>) :
        m \in MalformedSegments \cup
              {BothPathsSegment, EmptyPathSegment, ZeroScoreSegment}} \cup
    {ArrayResult(<<m, HighlightSegment>>) : m \in MalformedSegments}
ArgsStep3Results(args) ==
    {NoResult,
     ArrayResult(<< >>),
     ArrayResult(WrapAll(args.segments)),
     ArrayResult(<<SmartCut(<< >>)>>),
     ArrayResult(<<Garbage>>),
     ArrayResult(<<RemoteSegment>>),
     ArrayResult(<<SmartCut(<<MissingFileSegment>>)>>),
     ArrayResult(<<SmartCut(<<MissingFileSegment>>), SmartCut(<<RemoteSegment>>)>>)}

InitArgs ==
    /\ OutsideManagerIdle
    /\ workflows = {JobId}
    /\ \E r1 \in ArgsStep1Results :
         steps = [InitialSteps EXCEPT ![1].status = "completed", ![1].result = r1,
                                      ![1].reflection = Some("reflection"),
                                      ![2].status = "executing"]
    /\ currentStep = 2
    /\ isComplete = FALSE
    /\ pc = "prepare"
    /\ pendingError = ""
    /\ published = << >>
    /\ listeners = << >>
    /\ progressListeners = << >>
    /\ received = [h \in {"h1"} |-> << >>]
    /\ subscribes = [h \in {"h1"} |-> 0]
    /\ invocations = [i \in StepIndex |-> IF i < 2 THEN 1 ELSE 0]
    /\ toolArgs = [i \in StepIndex |-> NoArgs]

\* step 2's executor resolved with one of ArgsStep2Results, tool_complete is sent
argsStep2Returns ==
    /\ pc = "toolRunning"
    /\ currentStep = 2
    /\ \E toolResult \in ArgsStep2Results :
         steps' = [steps EXCEPT ![2].result = toolResult, ![2].status = "completed"]
    /\ sendWorkflowMessage(
          WorkflowMessage("tool_complete", Some(2), Some(steps[2].toolName),
                          Undefined, Some("completed")), 0)
    /\ pc' = "reflect"
    /\ UNCHANGED <<workflows, currentStep, isComplete, pendingError, invocations,
                   toolArgs>>
    /\ UNCHANGED outsideManager

\* step 3's executor resolved with one of ArgsStep3Results, tool_complete is sent
argsStep3Returns ==
    /\ pc = "toolRunning"
    /\ currentStep = 3
    /\ \E toolResult \in ArgsStep3Results(toolArgs[3]) :
         steps' = [steps EXCEPT ![3].result = toolResult, ![3].status = "completed"]
    /\ sendWorkflowMessage(
          WorkflowMessage("tool_complete", Some(3), Some(steps[3].toolName),
                          Undefined, Some("completed")), 0)
    /\ pc' = "reflect"
    /\ UNCHANGED <<workflows, currentStep, isComplete, pendingError, invocations,
                   toolArgs>>
    /\ UNCHANGED outsideManager

\* the run up to the invocation of step 4
argsAdvance ==
    /\ currentStep \in {2, 3}
    /\ generateStepReflection(0) \/ executeStep(0)

NextArgs ==
    \/ invokeTool
    \/ argsStep2Returns
    \/ argsStep3Returns
    \/ argsAdvance
    \/ executeStepCatch

SpecArgs == InitArgs /\ [][NextArgs]_vars

----------------------------------------------------------------------------
(* Several handlers on the two channels of one job.  The run has          *)
(* completed steps 1 to 4; two handlers subscribe to and unsubscribe from *)
(* the workflow channel and the progress channel while step 5 runs.       *)
(* In SpecBus every handler returns normally, as the handlers of          *)
(* streamJobProgress do; in SpecBusThrowing a handler may throw.          *)

BusCuts == <<TransformSegment(HighlightSegment)>>

\* the steps of a run whose first four steps have completed
BusSteps ==
    [i \in StepIndex |->
       IF i > 4 THEN InitialSteps[i]
       ELSE [InitialSteps[i] EXCEPT
               !.status = "completed",
               !.reflection = Some("reflection"),
               !.result =
                  IF i = 1
                    THEN ObjectResult(Some(<<SemanticSegment>>), Undefined, Undefined)
                  ELSE IF i = 2 THEN ArrayResult(<<HighlightSegment>>)
                  ELSE IF i = 3 THEN ArrayResult(WrapAll(BusCuts))
                  ELSE ObjectResult(Undefined, Some("/tmp/stitched.mp4"), Undefined)]]

InitBus ==
    /\ OutsideManagerIdle
    /\ workflows = {JobId}
    /\ steps = BusSteps
    /\ currentStep = 4
    /\ isComplete = FALSE
    /\ pc = "loop"
    /\ pendingError = ""
    /\ published = << >>
    /\ listeners = << >>
    /\ progressListeners = << >>
    /\ received = [h \in {"h1", "h2"} |-> << >>]
    /\ subscribes = [h \in {"h1", "h2"} |-> 0]
    /\ invocations = [i \in StepIndex |-> IF i <= 4 THEN 1 ELSE 0]
    /\ toolArgs = [i \in StepIndex |->
                     IF i <= 4 THEN prepareToolArguments(BusSteps, i).args
                     ELSE NoArgs]

\* the actions of both channels' subscribers
busSubscriptions ==
    \/ \E h \in Handlers : subscribeToWorkflowMessages(h)
    \/ \E h \in Handlers : unsubscribe(h)
    \/ \E h \in Handlers : subscribeToJob(h)
    \/ \E h \in Handlers : unsubscribeFromJob(h)

NextBus ==
    \/ executeStep(0)
    \/ invokeTool
    \/ toolReturns(0)
    \/ toolThrows
    \/ generateStepReflection(0)
    \/ reflectionFails
    \/ executeStepCatch
    \/ handleWorkflowError(0)
    \/ completeWorkflow(0)
    \/ updateProgress("running", 5, 0)
    \/ busSubscriptions

SpecBus == InitBus /\ [][NextBus]_vars

NextBusThrowing ==
    \/ \E t \in Throwers : executeStep(t)
    \/ invokeTool
    \/ \E t \in Throwers : toolReturns(t)
    \/ toolThrows
    \/ \E t \in Throwers : generateStepReflection(t)
    \/ reflectionFails
    \/ executeStepCatch
    \/ \E t \in Throwers : handleWorkflowError(t)
    \/ \E t \in Throwers : completeWorkflow(t)
    \/ \E t \in 0..Len(progressListeners) : updateProgress("running", 5, t)
    \/ busSubscriptions

SpecBusThrowing == InitBus /\ [][NextBusThrowing]_vars

----------------------------------------------------------------------------
(* The runs of two jobs side by side.  The manager keeps one map of       *)
(* WorkflowState objects keyed by job id and the tracker one emitter with *)
(* one event name per job; every coordinator step below is the step of    *)
(* Spec with the job id as a parameter and the tool's result left out.    *)

Jobs == {"job-1", "job-2"}

\* no WorkflowState object exists for the job
NoRun == [none |-> TRUE]

\* the WorkflowState startWorkflow builds for a job
RunState(j) ==
    [jobId |-> j, currentStep |-> 0, isComplete |-> FALSE,
     status |-> [i \in StepIndex |-> "pending"]]

\* a workflow message of job j
JobMessage(type, j, stepNumber) ==
    [type |-> type, jobId |-> j, stepNumber |-> stepNumber,
     toolName |-> IF stepNumber = Undefined THEN Undefined
                  ELSE Some(WORKFLOW_SEQUENCE[stepNumber[1]]),
     downloadUrl |-> Undefined, message |-> Some(type)]

\* the listeners emit calls for a message of job j when the one at position
\* thrower throws (0: none throws)
JobThrowers(j) == 0..Len(jobListeners[j])
JobReached(j, thrower) ==
    {jobListeners[j][k] :
        k \in 1..(IF thrower = 0 THEN Len(jobListeners[j]) ELSE thrower)}

\* faulty variant: the message goes to the listeners of every job
sendWorkflowMessageToAll(m, thrower) ==
    /\ received' = [h \in Handlers |->
                      IF \E j \in Jobs : h \in JobReached(j, 0)
                      THEN Append(received[h], m)
                      ELSE received[h]]
    /\ UNCHANGED <<jobListeners, published>>

\* sendWorkflowMessage: progressEmitter.emit(`workflow_message:${jobId}`, m)
sendWorkflowMessageOf(m, thrower) ==
    /\ received' = [h \in Handlers |->
                      IF h \in JobReached(m.jobId, thrower)
                      THEN Append(received[h], m)
                      ELSE received[h]]
    /\ UNCHANGED <<jobListeners, published>>

\* what no step of a job's run touches in this specification
outsideJobs == <<steps, currentStep, isComplete, pc, pendingError, listeners,
                 progressListeners, subscribes, invocations, toolArgs,
                 validatorVars, plannerVars, indexing, serviceVars, sse>>

\* startWorkflow(videoId, prompt, j) up to the first await of executeWorkflow
startWorkflowOf(j, thrower) ==
    /\ runPc[j] = "idle"
    /\ runStates' = [runStates EXCEPT ![j] = RunState(j)]
    /\ workflows' = workflows \cup {j}
    /\ sendWorkflowMessageOf(JobMessage("initial_response", j, Undefined), thrower)
    /\ runPc' = [runPc EXCEPT ![j] = IF thrower = 0 THEN "loop" ELSE "handleError"]
    /\ UNCHANGED outsideJobs

\* executeStep of job j: the step becomes 'executing', tool_start is sent
executeStepOf(j, thrower) ==
    /\ runPc[j] = "loop"
    /\ runStates[j].currentStep < NumSteps
    /\ LET i == runStates[j].currentStep + 1 IN
         /\ runStates' = [runStates EXCEPT ![j].currentStep = i,
                                            ![j].status[i] = "executing"]
         /\ sendWorkflowMessageOf(JobMessage("tool_start", j, Some(i)), thrower)
    /\ runPc' = [runPc EXCEPT ![j] = IF thrower = 0 THEN "toolRunning" ELSE "stepCatch"]
    /\ UNCHANGED workflows
    /\ UNCHANGED outsideJobs

\* executeStep of job j: the tool executor resolved, the step becomes
\* 'completed', tool_complete is sent
toolReturnsOf(j, thrower) ==
    /\ runPc[j] = "toolRunning"
    /\ LET i == runStates[j].currentStep IN
         /\ runStates' = [runStates EXCEPT ![j].status[i] = "completed"]
         /\ sendWorkflowMessageOf(JobMessage("tool_complete", j, Some(i)), thrower)
    /\ runPc' = [runPc EXCEPT ![j] = IF thrower = 0 THEN "reflect" ELSE "stepCatch"]
    /\ UNCHANGED workflows
    /\ UNCHANGED outsideJobs

\* executeStep of job j: preparing the arguments raised or the tool rejected
toolThrowsOf(j) ==
    /\ runPc[j] = "toolRunning"
    /\ runPc' = [runPc EXCEPT ![j] = "stepCatch"]
    /\ UNCHANGED <<workflows, runStates, received, jobListeners, published>>
    /\ UNCHANGED outsideJobs

\* executeStep of job j: the reflection is stored and tool_reflection is sent
generateStepReflectionOf(j, thrower) ==
    /\ runPc[j] = "reflect"
    /\ sendWorkflowMessageOf(
          JobMessage("tool_reflection", j, Some(runStates[j].currentStep)), thrower)
    /\ runPc' = [runPc EXCEPT ![j] = IF thrower = 0 THEN "loop" ELSE "stepCatch"]
    /\ UNCHANGED <<workflows, runStates>>
    /\ UNCHANGED outsideJobs

\* the catch block of executeStep of job j
executeStepCatchOf(j) ==
    /\ runPc[j] = "stepCatch"
    /\ runStates' = [runStates EXCEPT ![j].status[runStates[j].currentStep] = "failed"]
    /\ runPc' = [runPc EXCEPT ![j] = "handleError"]
    /\ UNCHANGED <<workflows, received, jobListeners, published>>
    /\ UNCHANGED outsideJobs

\* handleWorkflowError(j, error): this.workflows.delete(j) after the send
handleWorkflowErrorOf(j, thrower) ==
    /\ runPc[j] = "handleError"
    /\ sendWorkflowMessageOf(JobMessage("error", j, Undefined), thrower)
    /\ workflows' = IF thrower = 0 THEN workflows \ {j} ELSE workflows
    /\ runPc' = [runPc EXCEPT ![j] = "done"]
    /\ UNCHANGED runStates
    /\ UNCHANGED outsideJobs

\* completeWorkflow(state) of job j: this.workflows.delete(state.jobId)
\* after the send
completeWorkflowOf(j, thrower) ==
    /\ runPc[j] = "loop"
    /\ runStates[j].currentStep = NumSteps
    /\ runStates' = [runStates EXCEPT ![j].isComplete = TRUE]
    /\ sendWorkflowMessageOf(JobMessage("workflow_complete", j, Undefined), thrower)
    /\ workflows' = IF thrower = 0 THEN workflows \ {j} ELSE workflows
    /\ runPc' = [runPc EXCEPT ![j] = "done"]
    /\ UNCHANGED outsideJobs

\* the subscriptions made before the runs start: each of the two handlers
\* listens to one of the jobs
JobSubscriptions ==
    {[j \in Jobs |-> SelectSeq(<<"h1", "h2">>, LAMBDA h : f[h] = j)] :
        f \in [{"h1", "h2"} -> Jobs]}

InitJobs ==
    /\ ValidatorIdle
    /\ PlannerIdle
    /\ IndexingIdle
    /\ ServiceIdle
    /\ workflows = {}
    /\ steps = << >>
    /\ currentStep = 0
    /\ isComplete = FALSE
    /\ pc = "idle"
    /\ pendingError = ""
    /\ published = << >>
    /\ listeners = << >>
    /\ progressListeners = << >>
    /\ received = [h \in {"h1", "h2"} |-> << >>]
    /\ subscribes = [h \in {"h1", "h2"} |-> 1]
    /\ invocations = [i \in StepIndex |-> 0]
    /\ toolArgs = [i \in StepIndex |-> NoArgs]
    /\ runStates = [j \in Jobs |-> NoRun]
    /\ runPc = [j \in Jobs |-> "idle"]
    /\ jobListeners \in JobSubscriptions

NextJobs ==
    \E j \in Jobs :
       \/ \E t \in JobThrowers(j) : startWorkflowOf(j, t)
       \/ \E t \in JobThrowers(j) : executeStepOf(j, t)
       \/ \E t \in JobThrowers(j) : toolReturnsOf(j, t)
       \/ toolThrowsOf(j)
       \/ \E t \in JobThrowers(j) : generateStepReflectionOf(j, t)
       \/ executeStepCatchOf(j)
       \/ \E t \in JobThrowers(j) : handleWorkflowErrorOf(j, t)
       \/ \E t \in JobThrowers(j) : completeWorkflowOf(j, t)

SpecJobs == InitJobs /\ [][NextJobs]_vars

----------------------------------------------------------------------------
(* The service around one run: the controller creates the job and starts  *)
(* the workflow, callers query the job's status and update its progress,  *)
(* and the database may fail and recover at any time.  Nobody listens to  *)
(* the workflow channel here, so no listener throws into the coordinator. *)

\* a job id no job was created with
UnknownJob == "job-unknown"

\* getJobStatus of the tracker: the row's snapshot, null when the query
\* finds no row, and a default status when the query fails
Snapshot(row) ==
    [status |-> row.status, progress |-> row.progress,
     message |-> "Job " \o row.status]
DefaultStatus ==
    [status |-> "running", progress |-> 50, message |-> "Processing..."]
JobStatus(j) ==
    IF dbUp
    THEN IF HasRow(j) THEN Snapshot(jobRows[j]) ELSE Null
    ELSE DefaultStatus

\* the responses of the controller
NotFound == [code |-> 404, body |-> Null]
Ok(body) == [code |-> 200, body |-> body]
Accepted(j) == [code |-> 202, body |-> j]

\* the database becomes unavailable
databaseFails ==
    /\ dbUp
    /\ dbUp' = FALSE
    /\ UNCHANGED <<managerVars, validatorVars, plannerVars, indexing, jobVars, jobRows, lastCall, sse>>

\* the database is available again
databaseRecovers ==
    /\ ~dbUp
    /\ dbUp' = TRUE
    /\ UNCHANGED <<managerVars, validatorVars, plannerVars, indexing, jobVars, jobRows, lastCall, sse>>

\* createJob(videoId), awaited by createReel: the INSERT returns the id of
\* the new row; when it fails a generated id is returned instead
createJob ==
    /\ pc = "idle"
    /\ jobRows' = IF dbUp THEN [j \in DOMAIN jobRows \cup {JobId} |-> NewRow]
                  ELSE jobRows
    /\ lastCall' = Call("createJob", JobId, FALSE, Some(JobId))
    /\ pc' = "created"
    /\ UNCHANGED <<workflows, steps, currentStep, isComplete, pendingError,
                   published, listeners, progressListeners, received, subscribes,
                   invocations, toolArgs>>
    /\ UNCHANGED <<validatorVars, plannerVars, indexing, jobVars, dbUp, sse>>

\* faulty variant: the response is written once the first step has begun
createReelAfterFirstStep ==
    /\ pc = "created"
    /\ steps' = [InitialSteps EXCEPT ![1].status = "executing"]
    /\ currentStep' = 1
    /\ workflows' = workflows \cup {JobId}
    /\ sendWorkflowMessage(
          WorkflowMessage("tool_start", Some(1), Some(WORKFLOW_SEQUENCE[1]),
                          Undefined, Some("Executing")), 0)
    /\ pc' = "prepare"
    /\ pendingError' = ""
    /\ lastCall' = Call("createReel", JobId, FALSE, Accepted(JobId))
    /\ UNCHANGED <<isComplete, invocations, toolArgs>>
    /\ UNCHANGED <<validatorVars, plannerVars, indexing, jobVars, dbUp, jobRows, sse>>

\* createReel after createJob resolved: executeAgentWorkflow is called and
\* not awaited, so startWorkflow runs up to the first await of
\* executeWorkflow (the state is in the map and initial_response is sent),
\* then the 202 response with the job id is written
createReel ==
    /\ pc = "created"
    /\ steps' = InitialSteps
    /\ workflows' = workflows \cup {JobId}
    /\ sendWorkflowMessage(
          WorkflowMessage("initial_response", Undefined, Undefined, Undefined,
                          Some("I'll help you create a video reel")), 0)
    /\ pc' = "loop"
    /\ pendingError' = ""
    /\ lastCall' = Call("createReel", JobId, FALSE, Accepted(JobId))
    /\ UNCHANGED <<currentStep, isComplete, invocations, toolArgs>>
    /\ UNCHANGED <<validatorVars, plannerVars, indexing, jobVars, dbUp, jobRows, sse>>

\* getJobStatus of the controller: 404 when the tracker returns null
getJobStatus(j) ==
    /\ lastCall' = Call("getJobStatus", j, FALSE,
                        IF JobStatus(j) = Null THEN NotFound ELSE Ok(JobStatus(j)))
    /\ UNCHANGED <<managerVars, validatorVars, plannerVars, indexing, jobVars, dbUp, jobRows, sse>>

InitService ==
    /\ ValidatorIdle
    /\ PlannerIdle
    /\ IndexingIdle
    /\ JobsIdle
    /\ dbUp = TRUE
    /\ jobRows = << >>
    /\ lastCall = NoCall
    /\ sse = NoStream
    /\ workflows = {}
    /\ steps = << >>
    /\ currentStep = 0
    /\ isComplete = FALSE
    /\ pc = "idle"
    /\ pendingError = ""
    /\ published = << >>
    /\ listeners = << >>
    /\ progressListeners = << >>
    /\ received = [h \in {"h1"} |-> << >>]
    /\ subscribes = [h \in {"h1"} |-> 0]
    /\ invocations = [i \in StepIndex |-> 0]
    /\ toolArgs = [i \in StepIndex |-> NoArgs]

NextService ==
    \/ databaseFails
    \/ databaseRecovers
    \/ createJob
    \/ createReel
    \/ updateProgress("running", 5, 0)
    \/ \E h \in Handlers : subscribeToJob(h)
    \/ executeStep(0)
    \/ invokeTool
    \/ toolReturns(0)
    \/ toolThrows
    \/ generateStepReflection(0)
    \/ reflectionFails
    \/ executeStepCatch
    \/ handleWorkflowError(0)
    \/ completeWorkflow(0)

SpecService == InitService /\ [][NextService]_vars

\* the service with callers that query the status of the job and of a job
\* id that was never created
NextStatus ==
    \/ NextService
    \/ \E j \in {JobId, UnknownJob} : getJobStatus(j)

SpecStatus == InitService /\ [][NextStatus]_vars

\* the run of one reel job with callers that query its status: nothing
\* calls updateProgress with the id of a reel job (the catch of
\* executeAgentWorkflow, its one caller outside indexing, is not entered)
NextReel ==
    \/ databaseFails
    \/ databaseRecovers
    \/ createJob
    \/ createReel
    \/ getJobStatus(JobId)
    \/ executeStep(0)
    \/ invokeTool
    \/ toolReturns(0)
    \/ toolThrows
    \/ generateStepReflection(0)
    \/ reflectionFails
    \/ executeStepCatch
    \/ handleWorkflowError(0)
    \/ completeWorkflow(0)

SpecReel == InitService /\ [][NextReel]_vars

\* the creation of one reel job and its run beside a client that
\* subscribes to the job's workflow channel and unsubscribes at any time
NextCreate ==
    \/ createJob
    \/ createReel
    \/ \E h \in Handlers : subscribeToWorkflowMessages(h)
    \/ \E h \in Handlers : unsubscribe(h)
    \/ executeStep(0)
    \/ invokeTool
    \/ toolReturns(0)
    \/ toolThrows
    \/ generateStepReflection(0)
    \/ reflectionFails
    \/ executeStepCatch
    \/ handleWorkflowError(0)
    \/ completeWorkflow(0)

SpecCreate == InitService /\ [][NextCreate]_vars

----------------------------------------------------------------------------
(* One indexing job.  uploadAndIndexVideo creates the job, answers and    *)
(* starts indexVideoComplete in the background; every await of its call   *)
(* chain is a step.  The collaborators (CDN upload, frame extraction,     *)
(* Whisper, vision analysis, cleanup) return or throw.  The updates go to *)
(* the subscribers of progress:<jobId>.                                   *)

\* Math.round(n / d) for n >= 0 and d > 0
Round(n, d) == (2 * n + d) \div (2 * d)

\* the percentage updateStepProgress publishes with the status 'running'
updateStepProgress(step, totalSteps, stepProgress) ==
    Round((step - 1) * 100 + stepProgress, totalSteps)

\* the awaits of the call chain: an update of the progress or a call of a
\* collaborator
Update(status, progress) ==
    [kind |-> "update", status |-> status, progress |-> progress]
Await(collaborator) == [kind |-> "await", collaborator |-> collaborator]

\* the awaits of transcribeVideo when it is given a job id
transcribeVideo ==
    <<Update("running", updateStepProgress(2, 5, 100)),
      Await("extractAudio"),
      Update("running", updateStepProgress(3, 5, 100)),
      Await("openai.audio.transcriptions.create"),
      Update("running", updateStepProgress(3, 5, 50)),
      Await("storeTranscriptSegment")>>

\* the awaits of the try block of indexVideoComplete in order;
\* analyzeFrames is always set by uploadAndIndexVideo
indexVideoComplete(options) ==
    <<Update("running", 5),
      Update("running", updateStepProgress(1, 5, 100)),
      Await("cdnUploader.uploadVideoWithId"),
      Await("updateVideoWithUpload"),
      Update("running", updateStepProgress(2, 5, 100)),
      Await("frameExtractorService.extractFrames")>>
    \o (IF options.generateTranscript
        THEN <<Update("running", updateStepProgress(3, 5, 100))>> \o transcribeVideo
        ELSE << >>)
    \o <<Update("running", updateStepProgress(4, 5, 100)),
         Await("visionService.processFrames"),
         Update("running", updateStepProgress(5, 5, 100))>>
    \o (IF options.cleanupTempFiles THEN <<Await("cleanupTempFiles")>> ELSE << >>)
    \o <<Update("running", 95)>>

\* what the steps of the indexing job leave alone
outsideIndexing == <<workflows, steps, currentStep, isComplete, pc, pendingError,
                     listeners, progressListeners, subscribes, invocations,
                     toolArgs, validatorVars, plannerVars, jobVars, dbUp, sse>>

\* uploadAndIndexVideo up to its 202 response: the options are read from
\* the request body, the job is created and indexVideoComplete is started
\* without being awaited
uploadAndIndexVideo(generateTranscript, cleanupTempFiles) ==
    /\ indexing.phase = "idle"
    /\ jobRows' = IF dbUp THEN [j \in DOMAIN jobRows \cup {JobId} |-> NewRow]
                  ELSE jobRows
    /\ lastCall' = Call("uploadAndIndexVideo", JobId, FALSE, Accepted(JobId))
    /\ indexing' = [phase |-> "running", at |-> 1,
                    generateTranscript |-> generateTranscript,
                    cleanupTempFiles |-> cleanupTempFiles]
    /\ UNCHANGED <<published, received>>
    /\ UNCHANGED outsideIndexing

\* the await the chain stands at
IndexingAt == indexVideoComplete(indexing)[indexing.at]

\* the chain after the await it stands at returned: the next await, or
\* indexVideoComplete resolves after its last one
AfterAwait ==
    IF indexing.at < Len(indexVideoComplete(indexing))
    THEN [indexing EXCEPT !.at = @ + 1]
    ELSE [indexing EXCEPT !.phase = "resolved"]

\* an update of the chain: updateProgress or updateStepProgress is awaited;
\* what a subscriber throws is caught by indexVideoComplete
indexVideoCompleteUpdate(thrower) ==
    /\ indexing.phase = "running"
    /\ IndexingAt.kind = "update"
    /\ thrower \in 0..Len(progressListeners)
    /\ publishProgress(IndexingAt.status, IndexingAt.progress, thrower)
    /\ indexing' = IF thrower = 0 THEN AfterAwait
                   ELSE [indexing EXCEPT !.phase = "catch"]
    /\ UNCHANGED lastCall
    /\ UNCHANGED outsideIndexing

\* the collaborator the chain awaits returns
collaboratorReturns ==
    /\ indexing.phase = "running"
    /\ IndexingAt.kind = "await"
    /\ indexing' = AfterAwait
    /\ UNCHANGED <<published, received, jobRows, lastCall>>
    /\ UNCHANGED outsideIndexing

\* the collaborator the chain awaits throws
collaboratorThrows ==
    /\ indexing.phase = "running"
    /\ IndexingAt.kind = "await"
    /\ indexing' = [indexing EXCEPT !.phase = "catch"]
    /\ UNCHANGED <<published, received, jobRows, lastCall>>
    /\ UNCHANGED outsideIndexing

\* the catch of indexVideoComplete: the status 'failed' is published and
\* the error rethrown; the catch of the background promise logs it
indexVideoCompleteCatch(thrower) ==
    /\ indexing.phase = "catch"
    /\ thrower \in 0..Len(progressListeners)
    /\ publishProgress("failed", 0, thrower)
    /\ indexing' = [indexing EXCEPT !.phase = "failed"]
    /\ UNCHANGED lastCall
    /\ UNCHANGED outsideIndexing

\* the background completion of uploadAndIndexVideo after
\* indexVideoComplete resolved: the uploaded files are deleted and the job
\* is marked completed; what the update throws is logged
markCompleted(thrower) ==
    /\ indexing.phase = "resolved"
    /\ thrower \in 0..Len(progressListeners)
    /\ publishProgress("completed", 100, thrower)
    /\ indexing' = [indexing EXCEPT !.phase = "completed"]
    /\ UNCHANGED lastCall
    /\ UNCHANGED outsideIndexing

NextIndexing ==
    \/ \E generateTranscript, cleanupTempFiles \in BOOLEAN :
          uploadAndIndexVideo(generateTranscript, cleanupTempFiles)
    \/ \E t \in 0..Len(progressListeners) : indexVideoCompleteUpdate(t)
    \/ collaboratorReturns
    \/ collaboratorThrows
    \/ \E t \in 0..Len(progressListeners) : indexVideoCompleteCatch(t)
    \/ \E t \in 0..Len(progressListeners) : markCompleted(t)
    \/ \E h \in Handlers : subscribeToJob(h)
    \/ \E h \in Handlers : unsubscribeFromJob(h)

SpecIndexing == InitService /\ [][NextIndexing]_vars

----------------------------------------------------------------------------
(* One progress stream beside one run.  The two callbacks of              *)
(* streamJobProgress are the handler "h1" on both channels of the job;    *)
(* each catches what writing raises, so the handler never throws.         *)

StreamHandler == "h1"

\* a scalar update or a workflow message after which the callbacks arm the
\* close timer
IsTerminal(m) ==
    IF m.type = "progress" THEN m.status \in {"completed", "failed"}
    ELSE m.type \in {"workflow_complete", "error"}

\* the events the callbacks wrote to the connection before it was ended
WrittenEvents ==
    IF sse.state = "ended" THEN SubSeq(received[StreamHandler], 1, sse.endedAt)
    ELSE received[StreamHandler]

\* close timers set by the callbacks that have not fired yet
ArmedTimers ==
    Len(SelectSeq(received[StreamHandler], IsTerminal)) - sse.fired

\* streamJobProgress up to its await: the connected event is written and
\* both callbacks are subscribed
streamJobProgress ==
    /\ sse.state = "none"
    /\ sse' = [sse EXCEPT !.state = "open"]
    /\ listeners' = Append(listeners, StreamHandler)
    /\ progressListeners' = Append(progressListeners, StreamHandler)
    /\ subscribes' = [subscribes EXCEPT ![StreamHandler] = @ + 2]
    /\ UNCHANGED <<workflows, steps, currentStep, isComplete, pc, pendingError,
                   published, received, invocations, toolArgs>>
    /\ UNCHANGED <<validatorVars, plannerVars, indexing, jobVars, serviceVars>>

\* streamJobProgress after getJobStatus resolved: the current status is
\* written and the 'close' handler of the request is registered
streamSendsStatus ==
    /\ sse.state # "none"
    /\ ~sse.statusSent
    /\ sse' = [sse EXCEPT !.statusSent = TRUE]
    /\ UNCHANGED <<managerVars, validatorVars, plannerVars, indexing, jobVars, serviceVars>>

\* the request emits 'close' (the client went away, or the response was
\* ended): the registered handler calls both unsubscribe functions; a
\* 'close' emitted before the handler was registered is lost
clientDisconnects ==
    /\ sse.state # "none"
    /\ ~sse.clientGone
    /\ sse' = [sse EXCEPT !.clientGone = TRUE]
    /\ IF sse.statusSent
       THEN /\ listeners' = SelectSeq(listeners, LAMBDA x : x # StreamHandler)
            /\ progressListeners' =
                  SelectSeq(progressListeners, LAMBDA x : x # StreamHandler)
       ELSE UNCHANGED <<listeners, progressListeners>>
    /\ UNCHANGED <<workflows, steps, currentStep, isComplete, pc, pendingError,
                   published, received, subscribes, invocations, toolArgs>>
    /\ UNCHANGED <<validatorVars, plannerVars, indexing, jobVars, serviceVars>>

\* faulty variant: the close timer is set when the stream opens
closeTimerFiresEarly ==
    /\ sse.state = "open"
    /\ sse' = [sse EXCEPT !.state = "ended",
                          !.fired = @ + 1,
                          !.closeMarkers = @ + 1,
                          !.endedAt = Len(received[StreamHandler])]
    /\ UNCHANGED <<managerVars, validatorVars, plannerVars, indexing, jobVars, serviceVars>>

\* a close timer fires one second after a callback set it: the close
\* marker is written and the response is ended
closeTimerFires ==
    /\ ArmedTimers > 0
    /\ sse' = [sse EXCEPT !.state = "ended",
                          !.fired = @ + 1,
                          !.closeMarkers = @ + 1,
                          !.endedAt = IF sse.state = "ended" THEN @
                                      ELSE Len(received[StreamHandler])]
    /\ UNCHANGED <<managerVars, validatorVars, plannerVars, indexing, jobVars, serviceVars>>

\* the first four steps of the run have completed, as in InitBus
InitStream ==
    /\ OutsideManagerIdle
    /\ workflows = {JobId}
    /\ steps = BusSteps
    /\ currentStep = 4
    /\ isComplete = FALSE
    /\ pc = "loop"
    /\ pendingError = ""
    /\ published = << >>
    /\ listeners = << >>
    /\ progressListeners = << >>
    /\ received = [h \in {"h1"} |-> << >>]
    /\ subscribes = [h \in {"h1"} |-> 0]
    /\ invocations = [i \in StepIndex |-> IF i <= 4 THEN 1 ELSE 0]
    /\ toolArgs = [i \in StepIndex |->
                     IF i <= 4 THEN prepareToolArguments(BusSteps, i).args
                     ELSE NoArgs]

NextStream ==
    \/ streamJobProgress
    \/ streamSendsStatus
    \/ clientDisconnects
    \/ closeTimerFires
    \/ \E u \in {<<"running", 5>>, <<"failed", 0>>} : updateProgress(u[1], u[2], 0)
    \/ executeStep(0)
    \/ invokeTool
    \/ toolReturns(0)
    \/ toolThrows
    \/ generateStepReflection(0)
    \/ reflectionFails
    \/ executeStepCatch
    \/ handleWorkflowError(0)
    \/ completeWorkflow(0)

\* a timer that was set fires
SpecStream == InitStream /\ [][NextStream]_vars /\ WF_vars(closeTimerFires)

----------------------------------------------------------------------------
(* The validator called on its own: validateSegments is applied to a      *)
(* batch drawn from a bounded set, and again to what it returned.  The    *)
(* file system does not change in between.                                *)

\* the number of times validateSegments is applied in a row
MaxValidations == 2

\* a segment whose file exists and has no bytes
EmptyFileSegment ==
    Segment(Some(2), Some(5), Some("/tmp/empty.mp4"), Undefined, Some(6), Undefined,
            Some("peak_energy"), Undefined)

\* a segment whose filePath holds a number
NonStringPathSegment ==
    Segment(Some(2), Some(5), Some("<42>"), Undefined, Some(6), Undefined,
            Some("peak_energy"), Undefined)
\* a segment whose path is blank
BlankPathSegment ==
    Segment(Some(2), Some(5), Some(" "), Undefined, Some(6), Undefined,
            Some("peak_energy"), Undefined)

\* the segments a batch is made of: valid ones and one for every issue
ValidatorSegments ==
    {HighlightSegment, SecondHighlight, RemoteSegment, BothPathsSegment,
     Null, SemanticSegment, BrokenSegment, MissingFileSegment, EmptyFileSegment,
     ZeroSpanSegment, NegativeStartSegment, ReversedSegment, TimelessSegment,
     EmptyPathSegment, BlankPathSegment, NonStringPathSegment}

InitValidate ==
    /\ PlannerIdle
    /\ IndexingIdle
    /\ JobsIdle
    /\ ServiceIdle
    /\ inputBatch \in SeqsUpTo(ValidatorSegments, MaxBatch)
    /\ survivors = << >>
    /\ validations = 0
    /\ validationRaised = FALSE
    /\ workflows = {}
    /\ steps = << >>
    /\ currentStep = 0
    /\ isComplete = FALSE
    /\ pc = "idle"
    /\ pendingError = ""
    /\ published = << >>
    /\ listeners = << >>
    /\ progressListeners = << >>
    /\ received = [h \in {"h1"} |-> << >>]
    /\ subscribes = [h \in {"h1"} |-> 0]
    /\ invocations = [i \in StepIndex |-> 0]
    /\ toolArgs = [i \in StepIndex |-> NoArgs]

\* validateSegments(inputBatch, ...)
validateBatch ==
    /\ validations = 0
    /\ validationRaised' = validateSegmentsThrows(inputBatch)
    /\ survivors' = IF validateSegmentsThrows(inputBatch) THEN << >>
                    ELSE validateSegments(inputBatch)
    /\ validations' = 1
    /\ UNCHANGED inputBatch
    /\ UNCHANGED outsideValidator

\* validateSegments applied to what the last call returned
validateAgain ==
    /\ validations >= 1
    /\ validations < MaxValidations
    /\ ~validationRaised
    /\ survivors' = validateSegments(survivors)
    /\ UNCHANGED validationRaised
    /\ validations' = validations + 1
    /\ UNCHANGED inputBatch
    /\ UNCHANGED outsideValidator

NextValidate ==
    \/ validateBatch
    \/ validateAgain

SpecValidate == InitValidate /\ [][NextValidate]_vars

----------------------------------------------------------------------------
(* Effect planning.  buildFadeFiltersWithFallback (utils/ffmpeg-utils.ts)  *)
(* and buildVideoFilters of render_final_reel are called with inputs drawn *)
(* from bounded sets, under flags read from any environment and overridden *)
(* at run time.  In this section a duration is a number of hundredths of a *)
(* second (1.0 s is 100), null is written Undefined, a filter is a record  *)
(* and a filter string is the sequence of the filters it joins.            *)

\* the flags the two functions read (LOG_FADE_FILTER_DETAILS only logs)
FlagNames ==
    {"ENABLE_FADE_EFFECTS", "ENABLE_FADE_OUT_EFFECTS", "USE_SAFE_FADE_FALLBACK",
     "SKIP_FADE_ON_DURATION_ERROR", "EMERGENCY_DISABLE_ALL_EFFECTS",
     "FORCE_FALLBACK_MODE"}

getAllFeatureFlags ==
    [f \in FlagNames |->
        IF f \in DOMAIN runtimeOverrides THEN runtimeOverrides[f]
        ELSE featureFlags[f]]

isFadeEffectsEnabled ==
    IF getAllFeatureFlags.EMERGENCY_DISABLE_ALL_EFFECTS THEN FALSE
    ELSE getAllFeatureFlags.ENABLE_FADE_EFFECTS

\* isFadeOutEffectsEnabled without the look at ENABLE_FADE_EFFECTS
isFadeOutEffectsEnabledAlone ==
    IF getAllFeatureFlags.EMERGENCY_DISABLE_ALL_EFFECTS THEN FALSE
    ELSE getAllFeatureFlags.ENABLE_FADE_OUT_EFFECTS

isFadeOutEffectsEnabled ==
    IF getAllFeatureFlags.EMERGENCY_DISABLE_ALL_EFFECTS THEN FALSE
    ELSE getAllFeatureFlags.ENABLE_FADE_OUT_EFFECTS
            /\ getAllFeatureFlags.ENABLE_FADE_EFFECTS

shouldUseSafeFallback ==
    getAllFeatureFlags.USE_SAFE_FADE_FALLBACK
        \/ getAllFeatureFlags.FORCE_FALLBACK_MODE

shouldSkipFadeOnDurationError == getAllFeatureFlags.SKIP_FADE_ON_DURATION_ERROR

\* duration < 1.0 in buildFadeFiltersWithFallback
MinFadeDuration == 100
\* the d=0.5 of the fade filters and the defaults of buildFadeFilter
FadeDuration == 50
\* the 0.1 validateDurationForFades adds to the two fade durations
FadeBuffer == 10
\* the 0.2 below which validateDurationForFades adjusts no fade duration
MinAdjustable == 20

Filter(name, st, d) == [name |-> name, st |-> st, d |-> d]
\* drawtext=text='Aginno Video Editor':...
WatermarkFilter == Filter("drawtext", 0, 0)
\* scale=<resolution>
ScalingFilter == Filter("scale", 0, 0)
\* fade=t=in:st=0:d=<d>
FadeInFilter(d) == Filter("fade_in", 0, d)
\* fade=t=out:st=<st>:d=<d>
FadeOutFilter(st, d) == Filter("fade_out", st, d)

FADE_STRATEGIES ==
    [FULL_FADE |-> "full_fade", FADE_IN_ONLY |-> "fade_in_only",
     NO_FADE |-> "no_fade", WATERMARK_ONLY |-> "watermark_only"]

buildFullFadeFilters(addWatermark, duration) ==
    (IF addWatermark THEN <<WatermarkFilter>> ELSE << >>)
        \o <<FadeInFilter(FadeDuration),
             FadeOutFilter(Max(0, duration - FadeDuration), FadeDuration)>>

buildSafeFallbackFilters(addWatermark) ==
    (IF addWatermark THEN <<WatermarkFilter>> ELSE << >>)
        \o <<FadeInFilter(FadeDuration)>>

buildWatermarkOnlyFilters(addWatermark) ==
    IF addWatermark THEN <<WatermarkFilter>> ELSE << >>

\* an async function ends by resolving with a value or by rejecting
Resolves(value) == [raised |-> FALSE, value |-> value]
Rejects(error) == [raised |-> TRUE, error |-> error]

\* the result object of buildFadeFiltersWithFallback
FadeResult(strategy, fallbackReason, error, durationCalculated, filters) ==
    [strategy |-> strategy, fallbackReason |-> fallbackReason, error |-> error,
     durationCalculated |-> durationCalculated, filters |-> filters]

\* the outcome of a duration probe: it returns a duration or throws an Error
ProbeReturns(duration) == [throws |-> FALSE, duration |-> duration, message |-> ""]
ProbeThrows == [throws |-> TRUE, duration |-> 0, message |-> "ffprobe failed"]

\* an argument that is undefined or null, and an options object; inputPath
\* and getDurationFunc say whether the field holds a truthy value
NoOptions == [kind |-> "undefined"]
FadeOptions(addWatermark, videoDuration, inputPath, getDurationFunc) ==
    [kind |-> "object", addWatermark |-> addWatermark,
     videoDuration |-> videoDuration, inputPath |-> inputPath,
     getDurationFunc |-> getDurationFunc]

\* the catch of buildFadeFiltersWithFallback; buildWatermarkOnlyFilters
\* pushes a constant string and does not throw into the inner catch
fadeErrorFallback(addWatermark, message) ==
    Resolves(FadeResult(FADE_STRATEGIES.WATERMARK_ONLY,
                        Some("fade_error_watermark_only"), Some(message),
                        Undefined, buildWatermarkOnlyFilters(addWatermark)))

\* the planner: options is destructured before the try begins, so an
\* argument that is undefined or null rejects with a TypeError
buildFadeFiltersWithFallback(options, probe) ==
    IF options.kind # "object" THEN Rejects("TypeError")
    ELSE
    LET addWatermark == options.addWatermark
        videoDuration == options.videoDuration
        probes == ~TruthyNum(videoDuration) /\ options.inputPath
                    /\ options.getDurationFunc
        duration == IF probes THEN Some(probe.duration) ELSE videoDuration
        durationCalculated == IF probes THEN duration ELSE Undefined
        safe == buildSafeFallbackFilters(addWatermark)
    IN  IF shouldUseSafeFallback
        THEN Resolves(FadeResult(FADE_STRATEGIES.FADE_IN_ONLY,
                    Some("safe_fallback_mode_enabled"), Undefined, Undefined, safe))
        ELSE IF probes /\ probe.throws
        THEN IF shouldSkipFadeOnDurationError
             THEN Resolves(FadeResult(FADE_STRATEGIES.FADE_IN_ONLY,
                    Some("duration_calculation_failed"), Some(probe.message),
                    Undefined, safe))
             ELSE fadeErrorFallback(addWatermark, probe.message)
        ELSE IF TruthyNum(duration) /\ duration[1] < MinFadeDuration
        THEN Resolves(FadeResult(FADE_STRATEGIES.FADE_IN_ONLY,
                    Some("video_too_short"), Undefined, durationCalculated, safe))
        ELSE IF ~isFadeOutEffectsEnabled
        THEN Resolves(FadeResult(FADE_STRATEGIES.FADE_IN_ONLY,
                    Some("fade_out_disabled"), Undefined, durationCalculated, safe))
        ELSE IF TruthyNum(duration)
        THEN Resolves(FadeResult(FADE_STRATEGIES.FULL_FADE, Undefined, Undefined,
                    durationCalculated,
                    buildFullFadeFilters(addWatermark, duration[1])))
        ELSE Resolves(FadeResult(FADE_STRATEGIES.FADE_IN_ONLY,
                    Some("no_duration_available"), Undefined, durationCalculated,
                    safe))

\* validateDurationForFades for a positive duration; 0.3 * duration is
\* exact in hundredths for the durations drawn below, which are tenths
validateDurationForFades(duration, fadeInDuration, fadeOutDuration) ==
    LET total == fadeInDuration + fadeOutDuration
    IN  [canUseFadeIn |-> duration > fadeInDuration,
         canUseFadeOut |-> duration > fadeOutDuration,
         canUseBothFades |-> duration >= total + FadeBuffer,
         adjustedFadeDurations |->
            IF duration < total /\ duration > MinAdjustable
            THEN Some([fadeIn |-> Min(fadeInDuration, (3 * duration) \div 10),
                       fadeOut |-> Min(fadeOutDuration, (3 * duration) \div 10)])
            ELSE Undefined]

\* buildFadeFilter with validateDuration true and the two fade durations 0.5
buildFadeFilter(duration, enableFadeIn, enableFadeOut) ==
    LET durationValidation ==
            validateDurationForFades(duration, FadeDuration, FadeDuration)
        adjusted == durationValidation.adjustedFadeDurations
        adjustedFadeIn ==
            IF adjusted # Undefined /\ adjusted[1].fadeIn # 0
            THEN adjusted[1].fadeIn ELSE FadeDuration
        adjustedFadeOut ==
            IF adjusted # Undefined /\ adjusted[1].fadeOut # 0
            THEN adjusted[1].fadeOut ELSE FadeDuration
        fadeIn == IF enableFadeIn /\ durationValidation.canUseFadeIn
                  THEN <<FadeInFilter(adjustedFadeIn)>> ELSE << >>
        fadeOut == IF enableFadeOut /\ durationValidation.canUseFadeOut
                   THEN <<FadeOutFilter(Max(0, duration - adjustedFadeOut),
                                        adjustedFadeOut)>>
                   ELSE << >>
    IN  [filtersUsed |-> fadeIn \o fadeOut,
         strategy |-> IF fadeIn # << >> /\ fadeOut # << >> THEN "full_fade"
                      ELSE IF fadeIn # << >> THEN "fade_in_only"
                      ELSE IF fadeOut # << >> THEN "fade_out_only"
                      ELSE "no_fade"]

\* the options buildVideoFilters hands to buildVideoFiltersAdvanced
VideoFilterOptions(addWatermark, enableFadeOut, fallbackOnError) ==
    [videoDuration |-> Undefined, inputPath |-> TRUE, addScaling |-> TRUE,
     scalingResolution |-> TRUE, addWatermark |-> addWatermark, addFade |-> TRUE,
     fadeOptions |-> [enableFadeIn |-> TRUE, enableFadeOut |-> enableFadeOut],
     fallbackOnError |-> fallbackOnError]

\* buildVideoFiltersAdvanced: a duration probe that fails leaves the
\* duration undefined when fallbackOnError is set, and otherwise throws
\* into the outer catch, which returns the strategy 'error' with the errors
buildVideoFiltersAdvanced(options, probe) ==
    LET probes == ~TruthyNum(options.videoDuration) /\ options.inputPath
                    /\ options.addFade
        probeFails == probes /\ probe.throws
        duration == IF ~probes THEN options.videoDuration
                    ELSE IF probe.throws THEN Undefined
                    ELSE Some(probe.duration)
        scaling == IF options.addScaling /\ options.scalingResolution
                   THEN <<ScalingFilter>> ELSE << >>
        watermark == IF options.addWatermark THEN <<WatermarkFilter>> ELSE << >>
        fadeResult ==
            IF options.addFade /\ TruthyNum(duration)
            THEN buildFadeFilter(duration[1], options.fadeOptions.enableFadeIn,
                                 options.fadeOptions.enableFadeOut)
            ELSE [filtersUsed |-> << >>, strategy |-> "no_fade"]
    IN  IF probeFails /\ ~options.fallbackOnError
        THEN [filtersUsed |-> << >>, strategy |-> "error",
              errors |-> <<"Duration calculation failed",
                           "Duration calculation failed">>,
              warnings |-> << >>]
        ELSE [filtersUsed |-> scaling \o watermark \o fadeResult.filtersUsed,
              strategy |-> fadeResult.strategy,
              errors |-> << >>,
              warnings |-> IF probeFails
                           THEN <<"Duration calculation failed",
                                  "Falling back to watermark-only mode">>
                           ELSE << >>]

\* buildVideoFilters of render_final_reel; what it returns is the filter
\* string of the render command, and what it throws fails the render tool
buildVideoFilters(spec, probe) ==
    LET watermarkOrNone ==
            IF spec.addWatermark THEN <<WatermarkFilter>> ELSE << >>
        filterResult ==
            buildVideoFiltersAdvanced(
                VideoFilterOptions(spec.addWatermark, isFadeOutEffectsEnabled,
                                   shouldUseSafeFallback), probe)
    IN  IF ~isFadeEffectsEnabled THEN Resolves(watermarkOrNone)
        ELSE IF Len(filterResult.errors) > 0
        THEN IF shouldUseSafeFallback THEN Resolves(watermarkOrNone)
             ELSE IF shouldUseSafeFallback \/ shouldSkipFadeOnDurationError
             THEN Resolves(watermarkOrNone)
             ELSE Rejects("Filter building failed")
        ELSE Resolves(filterResult.filtersUsed)

\* a call that planned filters, the flags it saw and how it ended
Plan(fn, options, probe, result) ==
    [fn |-> fn, options |-> options, probe |-> probe,
     flags |-> getAllFeatureFlags, result |-> result]

\* the durations a caller passes: none, zero, 0.5 s and 1.0 s
VideoDurations == {Undefined, Some(0), Some(50), Some(100)}
\* what a probe ends with: 0.8 s, 3.0 s or an error
ProbeOutcomes == {ProbeReturns(80), ProbeReturns(300), ProbeThrows}
\* the arguments buildFadeFiltersWithFallback is called with
FadeArguments ==
    {NoOptions} \cup
    {FadeOptions(w, d, p, g) :
        w \in BOOLEAN, d \in VideoDurations, p \in BOOLEAN, g \in BOOLEAN}

planFadeFilters ==
    /\ \E options \in FadeArguments, probe \in ProbeOutcomes :
          lastPlan' = Plan("buildFadeFiltersWithFallback", options, probe,
                           buildFadeFiltersWithFallback(options, probe))
    /\ UNCHANGED <<featureFlags, runtimeOverrides>>
    /\ UNCHANGED <<managerVars, validatorVars, jobVars, serviceVars, sse, indexing>>

planRenderFilters ==
    /\ \E addWatermark \in BOOLEAN, probe \in ProbeOutcomes :
          LET spec == [addWatermark |-> addWatermark]
          IN  lastPlan' = Plan("buildVideoFilters", spec, probe,
                               buildVideoFilters(spec, probe))
    /\ UNCHANGED <<featureFlags, runtimeOverrides>>
    /\ UNCHANGED <<managerVars, validatorVars, jobVars, serviceVars, sse, indexing>>

emergencyDisableAllEffects ==
    /\ runtimeOverrides' =
          [EMERGENCY_DISABLE_ALL_EFFECTS |-> TRUE, ENABLE_FADE_EFFECTS |-> FALSE,
           ENABLE_FADE_OUT_EFFECTS |-> FALSE]
    /\ UNCHANGED <<featureFlags, lastPlan>>
    /\ UNCHANGED <<managerVars, validatorVars, jobVars, serviceVars, sse, indexing>>

enableForceFallbackMode ==
    /\ runtimeOverrides' =
          [FORCE_FALLBACK_MODE |-> TRUE, USE_SAFE_FADE_FALLBACK |-> TRUE]
              @@ runtimeOverrides
    /\ UNCHANGED <<featureFlags, lastPlan>>
    /\ UNCHANGED <<managerVars, validatorVars, jobVars, serviceVars, sse, indexing>>

resetEmergencyFlags ==
    /\ runtimeOverrides' = << >>
    /\ UNCHANGED <<featureFlags, lastPlan>>
    /\ UNCHANGED <<managerVars, validatorVars, jobVars, serviceVars, sse, indexing>>

\* the flags are read from any environment that leaves FORCE_FALLBACK_MODE
\* unset (enableForceFallbackMode sets it at run time)
InitFade ==
    /\ ValidatorIdle
    /\ JobsIdle
    /\ ServiceIdle
    /\ featureFlags \in {f \in [FlagNames -> BOOLEAN] : ~f.FORCE_FALLBACK_MODE}
    /\ runtimeOverrides = << >>
    /\ lastPlan = NoPlan
    /\ IndexingIdle
    /\ workflows = {}
    /\ steps = << >>
    /\ currentStep = 0
    /\ isComplete = FALSE
    /\ pc = "idle"
    /\ pendingError = ""
    /\ published = << >>
    /\ listeners = << >>
    /\ progressListeners = << >>
    /\ received = [h \in {"h1"} |-> << >>]
    /\ subscribes = [h \in {"h1"} |-> 0]
    /\ invocations = [i \in StepIndex |-> 0]
    /\ toolArgs = [i \in StepIndex |-> NoArgs]

NextFade ==
    \/ planFadeFilters
    \/ planRenderFilters
    \/ emergencyDisableAllEffects
    \/ enableForceFallbackMode
    \/ resetEmergencyFlags

SpecFade == InitFade /\ [][NextFade]_vars

----------------------------------------------------------------------------
(* Properties *)

Terminal == {"workflow_complete", "error"}
Started == steps # << >>

\* the message of the given type for step i is in the log
InLog(log, type, i) ==
    \E k \in 1..Len(log) : log[k].type = type /\ log[k].stepNumber = Some(i)
TypeInLog(log, type) == \E k \in 1..Len(log) : log[k].type = type

\* C1: the steps carry the five tools in the fixed order; a step leaves
\* 'pending' or has its tool invoked only when its predecessor is
\* 'completed'; at most one step is 'executing'.
C1_StrictSequence ==
    Started =>
      /\ \A i \in StepIndex : steps[i].toolName = WORKFLOW_SEQUENCE[i]
      /\ \A i \in 1..(NumSteps - 1) :
            (steps[i + 1].status # "pending" \/ invocations[i + 1] > 0)
               => steps[i].status = "completed"
      /\ Cardinality({i \in StepIndex : steps[i].status = "executing"}) <= 1

C1_Witness ==
    /\ Started
    /\ steps[5].status = "executing"
    /\ invocations[5] = 1
    /\ \A i \in 1..4 : steps[i].status = "completed"

\* C2: a step's status changes only pending -> executing, executing ->
\* completed or executing -> failed; a 'completed' or 'failed' step keeps
\* its status in every later state.
C2_NeverReopened ==
    [][Started =>
         \A i \in StepIndex :
            \/ steps'[i].status = steps[i].status
            \/ <<steps[i].status, steps'[i].status>> \in
                  {<<"pending", "executing">>, <<"executing", "completed">>,
                   <<"executing", "failed">>}]_vars

\* C3: once a step is 'failed', every later step is 'pending' and its tool
\* has not been invoked, in every later state of the run.
C3_FailureStopsRun ==
    Started =>
      \A i \in StepIndex, j \in StepIndex :
         (i < j /\ steps[i].status = "failed")
            => (steps[j].status = "pending" /\ invocations[j] = 0)

C3_Witness ==
    /\ Started
    /\ pc = "done"
    /\ steps[3].status = "failed"
    /\ invocations[3] = 1

\* C4: in what a handler received, the step numbers never decrease and a
\* terminal message (workflow_complete, error) is followed by nothing.
C4_OrderedDelivery ==
    \A h \in Handlers :
       \A k \in 1..Len(received[h]), l \in 1..Len(received[h]) :
          k < l =>
            /\ received[h][k].type \notin Terminal
            /\ (received[h][k].stepNumber # Undefined /\
                received[h][l].stepNumber # Undefined)
                  => received[h][k].stepNumber[1] <= received[h][l].stepNumber[1]

C4_Witness ==
    \E h \in Handlers :
       /\ Len(received[h]) >= 3
       /\ received[h][Len(received[h])].type \in Terminal
       /\ InLog(received[h], "tool_reflection", 1)
       /\ InLog(received[h], "tool_start", 2)

\* C5: an error message published for a run in which step i failed carries
\* stepNumber i, the tool name of step i and a non-empty message.
C5_ErrorNamesFailingStep ==
    \A k \in 1..Len(published) :
       published[k].type = "error" =>
          \A i \in StepIndex :
             steps[i].status = "failed" =>
                /\ published[k].stepNumber = Some(i)
                /\ published[k].toolName = Some(WORKFLOW_SEQUENCE[i])
                /\ TruthyStr(published[k].message)

\* C6: when workflow_complete is in the log, all five steps are 'completed'
\* and its downloadUrl is the publicUrl of the result stored in step 5.
C6_CompleteCarriesUrl ==
    \A k \in 1..Len(published) :
       published[k].type = "workflow_complete" =>
          /\ \A i \in StepIndex : steps[i].status = "completed"
          /\ steps[NumSteps].result.kind = "object"
          /\ published[k].downloadUrl = steps[NumSteps].result.publicUrl

C6_Witness ==
    /\ TypeInLog(published, "workflow_complete")
    /\ published[Len(published)].downloadUrl = Some("https://cdn/reel.mp4")

\* C7: the map holds the job from startWorkflow on while no terminal
\* message was published, and no longer holds it once a terminal message
\* has been published (here: has reached a handler).
C7_MapUntilTerminal ==
    /\ (Started /\ ~\E k \in 1..Len(published) : published[k].type \in Terminal)
          => JobId \in workflows
    /\ (\E h \in Handlers : \E k \in 1..Len(received[h]) :
            received[h][k].type \in Terminal)
          => JobId \notin workflows

\* C8: the tool executor of every step is invoked at most once in a run.
C8_NoRetry == \A i \in StepIndex : invocations[i] <= 1

C8_Witness ==
    /\ Started
    /\ pc = "done"
    /\ steps[4].status = "failed"
    /\ pendingError = "tool failed"
    /\ invocations[4] = 1

\* C9: the protocol of one run, stated for every step that publishes a
\* message or invokes a tool.  tool_start(i) is published when step i is
\* 'executing' and its tool not yet invoked, after initial_response (i = 1)
\* or after tool_reflection(i-1) (i > 1); a tool is invoked only after its
\* tool_start; tool_complete(i) is published when the result is stored
\* and the step 'completed'; tool_reflection(i) is published after
\* tool_complete(i) and before tool_start(i+1).
C9_MessageOk(m, log, st, inv) ==
    LET i == m.stepNumber[1] IN
    /\ m.type = "tool_start" =>
          /\ st[i].status = "executing"
          /\ inv[i] = 0
          /\ IF i = 1 THEN TypeInLog(log, "initial_response")
             ELSE InLog(log, "tool_reflection", i - 1)
    /\ m.type = "tool_complete" =>
          /\ st[i].status = "completed"
          /\ st[i].result # NoResult
          /\ inv[i] = 1
          /\ InLog(log, "tool_start", i)
    /\ m.type = "tool_reflection" =>
          /\ InLog(log, "tool_complete", i)
          /\ ~\E j \in StepIndex : j > i /\ InLog(log, "tool_start", j)

C9_EventProtocol ==
    [][/\ \A k \in (Len(published) + 1)..Len(published') :
            C9_MessageOk(published'[k], published, steps', invocations')
       /\ \A i \in StepIndex :
            invocations'[i] > invocations[i] => InLog(published, "tool_start", i)]_vars

C9_Witness ==
    /\ InLog(published, "tool_reflection", 1)
    /\ InLog(published, "tool_start", 2)
    /\ invocations[2] = 1

\* the items of an array result, the segments of a step-1 result
ItemsOf(result) == IF result.kind = "array" THEN result.items ELSE << >>
SegmentsOf(result) == IF HasSegments(result) THEN result.segments[1] ELSE << >>
FlattenedCuts(result) == FlatMapCuts(ItemsOf(result))

\* args are the valid segments of batch: as many as batch has valid ones,
\* each with the path and the times of a valid segment of batch
FromBatch(args, batch) ==
    /\ Len(args) = Cardinality({k \in 1..Len(batch) : PassesValidation(batch[k])})
    /\ \A n \in 1..Len(args) :
          \E k \in 1..Len(batch) :
             /\ PassesValidation(batch[k])
             /\ args[n].filePath = OrStr(batch[k].filePath, batch[k].outputPath)
             /\ args[n].startTime = batch[k].startTime
             /\ args[n].endTime = batch[k].endTime

\* the upstream batches of steps 3 and 4 in preference order
Upstream(i) ==
    IF i = 3 THEN <<ItemsOf(steps[2].result), SegmentsOf(steps[1].result)>>
    ELSE <<FlattenedCuts(steps[3].result), ItemsOf(steps[2].result),
           SegmentsOf(steps[1].result)>>
\* the raw upstream results of steps 3 and 4 in preference order
RawUpstream(i) ==
    IF i = 3 THEN <<ItemsOf(steps[2].result), SegmentsOf(steps[1].result)>>
    ELSE <<ItemsOf(steps[3].result), ItemsOf(steps[2].result),
           SegmentsOf(steps[1].result)>>

\* argument preparation of step i has returned / has raised
Prepared(i) == toolArgs[i] # NoArgs
PrepareRaised(i) == currentStep = i /\ pc = "stepCatch" /\ invocations[i] = 0

NoUsableForCuts ==
    /\ Started
    /\ validateSegments(ItemsOf(steps[2].result)) = << >>
    /\ validateSegments(SegmentsOf(steps[1].result)) = << >>

StitchSurvivors ==
    LET idx == {n \in 1..3 : RawUpstream(4)[n] # << >>}
    IN  IF idx = {} THEN << >>
        ELSE validateSegments(Upstream(4)[CHOOSE n \in idx : \A m \in idx : n <= m])

\* C12: the stitch tool is never invoked with an empty segment list; when
\* no segment survives validation for step 4 the tool is not invoked, step
\* 4 becomes 'failed', the run ends with an error message and
\* workflow_complete is never published.
C12_StitchNeverEmpty ==
    Started =>
      /\ invocations[4] > 0 => toolArgs[4].segments # << >>
      /\ (currentStep = 4 /\ pc # "prepare" /\ StitchSurvivors = << >>) =>
            /\ invocations[4] = 0
            /\ ~TypeInLog(published, "workflow_complete")
            /\ pc \in {"stepCatch", "handleError", "done"}
            /\ pc # "stepCatch" => steps[4].status = "failed"
            /\ pc = "done" => published[Len(published)].type = "error"

\* step 2's result was non-empty, none of its segments survived, and the
\* run ended with step 4 failed and an error message
C12_Witness ==
    /\ Started
    /\ pc = "done"
    /\ steps[3].status = "completed"
    /\ IsNonEmptyArray(steps[2].result)
    /\ StitchSurvivors = << >>
    /\ steps[4].status = "failed"
    /\ invocations[4] = 0
    /\ published[Len(published)].type = "error"

\* the index in batch of its n-th segment that passes validation
NthValid(batch, n) ==
    CHOOSE k \in 1..Len(batch) :
       /\ PassesValidation(batch[k])
       /\ Cardinality({j \in 1..k : PassesValidation(batch[j])}) = n

\* args are the valid segments of batch in their order in batch
ValidInOrder(args, batch) ==
    /\ Len(args) = Cardinality({k \in 1..Len(batch) : PassesValidation(batch[k])})
    /\ \A n \in 1..Len(args) :
          LET raw == batch[NthValid(batch, n)] IN
          /\ args[n].filePath = OrStr(raw.filePath, raw.outputPath)
          /\ args[n].startTime = raw.startTime
          /\ args[n].endTime = raw.endTime

ScenarioC ==
    /\ Started
    /\ steps[2].result = ArrayResult(<<BrokenSegment>>)
    /\ validateSegments(SegmentsOf(steps[1].result)) = << >>

\* an error raised by the run itself, not by a listener or the reflection
OwnError == pendingError \notin {"", HandlerError, "step is not defined"}

\* C14 as claimed: in Scenario C step 3 raises, its tool is not invoked,
\* step 3 becomes 'failed', steps 4 and 5 stay 'pending', and the error
\* message names step 3.
C14_ScenarioCFailsAtStep3 ==
    ScenarioC =>
      /\ invocations[3] = 0
      /\ steps[3].status # "completed"
      /\ steps[4].status = "pending" /\ steps[5].status = "pending"
      /\ \A k \in 1..Len(published) :
            published[k].type = "error" =>
               (steps[3].status = "failed" /\ published[k].stepNumber = Some(3))

\* C14 as amended: in Scenario C step 3's preparation does not raise; its
\* tool is invoked with the empty list and step 3 completes with the empty
\* result.  Step 4's preparation raises "No valid segments available for
\* stitching": step 4 becomes 'failed' without its tool being invoked,
\* step 5 stays 'pending', and the run ends with an error message that
\* carries this text and no step number; workflow_complete is not sent.
C14_ScenarioCFailsAtStep4 ==
    ScenarioC =>
      /\ (currentStep = 3 /\ pc \in {"stepCatch", "handleError", "done"}) => ~OwnError
      /\ invocations[3] = 1 => toolArgs[3] = [segments |-> << >>]
      /\ steps[3].status = "completed" => steps[3].result = ArrayResult(<< >>)
      /\ invocations[4] = 0 /\ invocations[5] = 0
      /\ steps[5].status = "pending"
      /\ (currentStep = 4 /\ pc \in {"stepCatch", "handleError", "done"}
            /\ pendingError # HandlerError) =>
            /\ pendingError = "No valid segments available for stitching"
            /\ pc # "stepCatch" => steps[4].status = "failed"
            /\ pc = "done" =>
                  /\ published[Len(published)].type = "error"
                  /\ published[Len(published)].message = Some(pendingError)
                  /\ published[Len(published)].stepNumber = Undefined
      /\ currentStep = 4 => pc \notin {"toolRunning", "reflect", "loop"}
      /\ ~TypeInLog(published, "workflow_complete")

\* Scenario C ran to its end: step 3 completed, step 4 failed
C14_Witness ==
    /\ ScenarioC
    /\ pc = "done"
    /\ steps[3].status = "completed"
    /\ toolArgs[3] = [segments |-> << >>]
    /\ steps[4].status = "failed"
    /\ invocations[4] = 0
    /\ published[Len(published)].type = "error"
    /\ published[Len(published)].message = Some("No valid segments available for stitching")

\* the batch step i (3 or 4) prepares its arguments from: the first
\* upstream result that is non-empty
ChosenSource(i) ==
    LET idx == {n \in 1..Len(RawUpstream(i)) : RawUpstream(i)[n] # << >>}
    IN  IF idx = {} THEN << >>
        ELSE Upstream(i)[CHOOSE n \in idx : \A m \in idx : n <= m]

\* a well-formed segment that names its file in outputPath only
OutputPathOnly(raw) ==
    /\ raw.filePath = Undefined
    /\ raw.outputPath # Undefined
    /\ raw.outputPath[1] \notin BlankPaths \cup {"undefined", "null"}
    /\ \/ IsHttp(raw.outputPath[1])
       \/ existsSync(raw.outputPath[1]) /\ ~IsEmptyFile(raw.outputPath[1])
    /\ raw.startTime # Undefined /\ raw.startTime[1] >= 0
    /\ raw.endTime # Undefined /\ raw.endTime[1] > raw.startTime[1]

\* args holds the normalized form of raw: filePath is raw.filePath when
\* that is a non-empty string and raw.outputPath otherwise, the times are
\* those of raw, and only filePath names the file
NormalizedIn(args, raw) ==
    \E n \in 1..Len(args) :
       /\ args[n].filePath =
             (IF raw.filePath # Undefined /\ raw.filePath[1] # ""
              THEN raw.filePath ELSE raw.outputPath)
       /\ args[n].outputPath = Undefined
       /\ args[n].startTime = raw.startTime
       /\ args[n].endTime = raw.endTime

ArgSegments(i) ==
    IF i = 2 THEN toolArgs[i].input_segments ELSE toolArgs[i].segments

\* C16: every segment among the arguments prepared for steps 2, 3 and 4
\* has numeric times with startTime >= 0 and endTime > startTime, whatever
\* the upstream results hold.
C16_SegmentsWellTimed ==
    \A i \in {2, 3, 4} :
       Prepared(i) =>
          \A n \in 1..Len(ArgSegments(i)) :
             LET seg == ArgSegments(i)[n] IN
             /\ seg.startTime # Undefined /\ seg.endTime # Undefined
             /\ seg.startTime[1] >= 0
             /\ seg.endTime[1] > seg.startTime[1]

\* C17: validating what validateSegments returned returns the same batch
\* again, and validating a batch whose segments all pass returns that
\* batch, same segments in the same order.
C17_ValidateIdempotent ==
    [][/\ (validations >= 1 /\ validations' = validations + 1) =>
             survivors' = survivors
       /\ (validations = 0 /\ validations' = 1
            /\ \A k \in 1..Len(inputBatch) : PassesValidation(inputBatch[k])) =>
             survivors' = inputBatch]_vars

\* a batch of three with an invalid segment in the middle was validated
\* twice and both calls returned its two valid segments
C17_Witness ==
    /\ validations = 2
    /\ inputBatch = <<HighlightSegment, BrokenSegment, RemoteSegment>>
    /\ survivors = <<HighlightSegment, RemoteSegment>>

----------------------------------------------------------------------------
(* Delivery on the two channels of a job *)

\* h is registered in the listener list ls
Registered(h, ls) == \E k \in 1..Len(ls) : ls[k] = h

\* the listener list of the channel an event is emitted on
ListenersOf(m) == IF m.type = "progress" THEN progressListeners ELSE listeners

\* this step publishes one event
Publishes == Len(published') = Len(published) + 1

\* C18: a handler receives exactly the events published on its job and
\* channel while it is subscribed, each once and in publication order:
\* a step that publishes an event appends it to what every handler then
\* registered on the event's channel has received and to nothing else, and
\* no other step (subscribing and unsubscribing included) changes what a
\* handler has received, so nothing published earlier is replayed and a
\* handler of one channel gets no event of the other
C18_ExactDelivery ==
    [][\A h \in Handlers :
          IF Publishes
          THEN LET m == published'[Len(published')] IN
                 /\ published' = Append(published, m)
                 /\ received'[h] = IF Registered(h, ListenersOf(m))
                                     THEN Append(received[h], m)
                                     ELSE received[h]
          ELSE /\ published' = published
               /\ received'[h] = received[h]]_vars

\* a handler that subscribed to the workflow channel after the first event,
\* received a later one and has unsubscribed, while a progress update it
\* did not receive reached the handler of the progress channel
C18_Witness ==
    /\ ~Registered("h1", listeners)
    /\ received["h1"] # << >>
    /\ \A k \in 1..Len(received["h1"]) : received["h1"][k].type # "progress"
    /\ published[1].type = "tool_start"
    /\ received["h1"][1].type # "tool_start"
    /\ received["h2"] = <<ProgressUpdate("running", 5)>>
    /\ Len(published) > Len(received["h1"]) + 2

\* C19: a handler that throws neither keeps another handler of the channel
\* from receiving the event nor makes the coordinator fail the step: every
\* published workflow event reaches every registered handler, and no step
\* is handed to the failure path with a handler's error
C19_HandlerIsolation ==
    [][Publishes =>
          LET m == published'[Len(published')] IN
            /\ \A h \in Handlers :
                  Registered(h, ListenersOf(m)) => received'[h] = Append(received[h], m)
            /\ ~(pc' = "stepCatch" /\ pendingError' = HandlerError)]_vars

\* C20: unsubscribing a handler removes that handler's subscription and
\* nothing else: the run, the step statuses, the tool invocations, the
\* published events and what the handlers received are unchanged, every
\* other handler stays registered in its place, and every later event of
\* the channel is appended to what each handler still registered received
C20_UnsubscribeFrame ==
    [][/\ \A h \in Handlers :
            (Registered(h, listeners) /\ ~Registered(h, listeners')) =>
               /\ listeners' = SelectSeq(listeners, LAMBDA x : x # h)
               /\ UNCHANGED <<workflows, steps, currentStep, isComplete, pc,
                              pendingError, published, progressListeners, received,
                              invocations, toolArgs>>
       /\ \A h \in Handlers :
            (Registered(h, progressListeners) /\ ~Registered(h, progressListeners')) =>
               /\ progressListeners' = SelectSeq(progressListeners, LAMBDA x : x # h)
               /\ UNCHANGED <<workflows, steps, currentStep, isComplete, pc,
                              pendingError, published, listeners, received,
                              invocations, toolArgs>>
       /\ Publishes =>
            \A g \in Handlers :
               Registered(g, ListenersOf(published'[Len(published')])) =>
                  received'[g] = Append(received[g], published'[Len(published')])]_vars

\* both handlers received tool_start of step 5, h1 unsubscribed, and h2
\* went on to receive the events published after that
C20_Witness ==
    /\ ~Registered("h1", listeners)
    /\ Registered("h2", listeners)
    /\ Len(received["h1"]) = 1
    /\ received["h1"][1].type = "tool_start"
    /\ Len(received["h2"]) = 3
    /\ received["h2"][1] = received["h1"][1]
    /\ received["h2"][3].type = "tool_reflection"

----------------------------------------------------------------------------
(* Two jobs *)

\* the jobs whose channel handler h listens to
JobsOf(h) == {j \in Jobs : \E k \in 1..Len(jobListeners[j]) : jobListeners[j][k] = h}

\* C21: runs of different jobs are independent under any interleaving: a
\* handler receives only events of a job it subscribed to, and a step of
\* one job's run (its failure and its completion included) leaves the
\* other job's WorkflowState, step statuses, position and map entry unchanged
C21_JobsIndependent ==
    [][/\ \A h \in Handlers : \A k \in 1..Len(received'[h]) :
            received'[h][k].jobId \in JobsOf(h)
       /\ \A a \in Jobs : \A b \in Jobs \ {a} :
            runPc'[a] # runPc[a] =>
               /\ runStates'[b] = runStates[b]
               /\ runPc'[b] = runPc[b]
               /\ (b \in workflows') = (b \in workflows)]_vars

\* job-1 failed at step 2 and was discarded while job-2, started before
\* that, ran to completion, and the handler of job-2 has the whole of
\* job-2's events and nothing of job-1
C21_Witness ==
    /\ runPc["job-1"] = "done"
    /\ runStates["job-1"].status[2] = "failed"
    /\ runPc["job-2"] = "done"
    /\ runStates["job-2"].isComplete
    /\ \A i \in StepIndex : runStates["job-2"].status[i] = "completed"
    /\ workflows = {}
    /\ jobListeners = [j \in Jobs |-> IF j = "job-1" THEN <<"h1">> ELSE <<"h2">>]
    /\ Len(received["h2"]) = 17
    /\ received["h1"][Len(received["h1"])].type = "error"

----------------------------------------------------------------------------
(* The service: status queries, persistence failures, job creation *)

\* this step is a call of op (one that differs from the call before it)
Calls(op) == lastCall' # lastCall /\ lastCall'.op = op

\* C22: a status query answers with the current snapshot of a known job
\* and with not-found for a job id that is unknown or whose run was
\* discarded, whatever the state of the database
C22_StatusQuery ==
    [][Calls("getJobStatus") =>
          IF lastCall'.jobId = JobId /\ pc \notin {"idle", "done"}
          THEN lastCall'.result =
                  Ok(Snapshot(IF HasRow(JobId) THEN jobRows[JobId] ELSE NewRow))
          ELSE lastCall'.result = NotFound]_vars

\* the error a failing database raises
DatabaseError == "database unavailable"

\* C23: a failing persistence write is swallowed: updateProgress publishes
\* the update to every subscriber of the job and returns normally whether
\* or not the database is available, createJob returns a job id without
\* raising whether or not the INSERT succeeded, and no step becomes
\* 'failed' with the database's error
C23_PersistenceSwallowed ==
    [][/\ Calls("updateProgress") =>
            /\ ~lastCall'.raised
            /\ published' = Append(published, ProgressUpdate("running", 5))
            /\ \A h \in Handlers :
                  Registered(h, progressListeners) =>
                     received'[h] = Append(received[h], ProgressUpdate("running", 5))
       /\ Calls("createJob") =>
            /\ ~lastCall'.raised
            /\ lastCall'.result = Some(JobId)
            /\ pc' = "created"
       /\ \A i \in StepIndex :
            (steps' # << >> /\ steps'[i].status = "failed") =>
               pendingError' \notin {"", DatabaseError}]_vars

\* the job was created and its progress updated while the database was
\* down (no row exists), the subscriber received the update, and the run
\* under the generated id completed
C23_Witness ==
    /\ ~dbUp
    /\ ~HasRow(JobId)
    /\ lastCall = Call("updateProgress", JobId, FALSE, Null)
    /\ received["h1"] = <<ProgressUpdate("running", 5)>>
    /\ pc = "done"
    /\ isComplete

\* C25: job creation answers before any step begins: when the response
\* with the job id is written all five steps are 'pending' and no tool
\* was invoked, and a step leaves 'pending' only after that response
C25_ResponseBeforeSteps ==
    [][/\ Calls("createReel") =>
            /\ lastCall'.result = Accepted(JobId)
            /\ \A i \in StepIndex :
                  steps'[i].status = "pending" /\ invocations'[i] = 0
       /\ \A i \in StepIndex :
            (steps' # << >> /\ steps'[i].status # "pending") =>
               pc \notin {"idle", "created"}]_vars

\* the response was written, the run is in the map with its five steps
\* pending and the loop about to begin step 1
C25_Witness ==
    /\ lastCall = Call("createReel", JobId, FALSE, Accepted(JobId))
    /\ JobId \in workflows
    /\ pc = "loop"
    /\ currentStep = 0
    /\ \A i \in StepIndex : steps[i].status = "pending" /\ invocations[i] = 0

----------------------------------------------------------------------------
(* The progress stream *)

\* a terminal workflow event was written to the connection
TerminalEventWritten ==
    \E k \in 1..Len(WrittenEvents) :
       WrittenEvents[k].type \in {"workflow_complete", "error"}

\* a terminal event or a terminal scalar status was written to the connection
TerminalWritten == \E k \in 1..Len(WrittenEvents) : IsTerminal(WrittenEvents[k])

\* the close marker was written and the connection ended
StreamClosed == sse.state = "ended" /\ sse.closeMarkers >= 1

\* C24: after a terminal workflow event was written to a progress stream
\* the server eventually writes the close marker and ends the connection,
\* in a later step than the one that wrote the event; and the server
\* never ends the connection unless a terminal event or a terminal scalar
\* status was written to it before
C24_StreamCloses ==
    /\ [](sse.state = "ended" => TerminalWritten /\ sse.closeMarkers >= 1)
    /\ [][sse.state # "ended" /\ sse'.state = "ended" =>
             \E k \in 1..Len(received[StreamHandler]) :
                IsTerminal(received[StreamHandler][k])]_vars
    /\ (TerminalEventWritten ~> StreamClosed)

\* the stream was opened during the run, workflow_complete was its last
\* event, and one timer later the close marker is written and the
\* connection ended
C24_Witness ==
    /\ StreamClosed
    /\ sse.fired = 1
    /\ sse.endedAt >= 2
    /\ WrittenEvents[sse.endedAt].type = "workflow_complete"
    /\ WrittenEvents[1].type = "tool_complete"

----------------------------------------------------------------------------
(* Effect planning *)

\* the last call was one of the fallback planner, of the render step's
\* filter building
PlannedFade == lastPlan.fn = "buildFadeFiltersWithFallback"
PlannedRender == lastPlan.fn = "buildVideoFilters"

\* the planner was handed an options object and returned
FadeReturned ==
    PlannedFade /\ lastPlan.options.kind = "object" /\ ~lastPlan.result.raised

\* the planner called the duration probe: it was handed no usable
\* duration, had a path and a probe, and safe-fallback mode was off
ProbeConsulted ==
    /\ PlannedFade
    /\ lastPlan.options.kind = "object"
    /\ ~TruthyNum(lastPlan.options.videoDuration)
    /\ lastPlan.options.inputPath
    /\ lastPlan.options.getDurationFunc
    /\ ~(lastPlan.flags.USE_SAFE_FADE_FALLBACK \/ lastPlan.flags.FORCE_FALLBACK_MODE)

\* the duration the planner resolved: the one it was handed, or else the
\* one the probe returned
ResolvedDuration ==
    IF TruthyNum(lastPlan.options.videoDuration) THEN lastPlan.options.videoDuration
    ELSE IF ProbeConsulted /\ ~lastPlan.probe.throws
    THEN Some(lastPlan.probe.duration)
    ELSE Undefined

\* fades were globally disabled when filters were planned
FadesDisabled ==
    ~lastPlan.flags.ENABLE_FADE_EFFECTS \/ lastPlan.flags.EMERGENCY_DISABLE_ALL_EFFECTS

\* a filter list holds a fade-in, a fade-out
HasFadeIn(filters) == \E k \in 1..Len(filters) : filters[k].name = "fade_in"
HasFadeOut(filters) == \E k \in 1..Len(filters) : filters[k].name = "fade_out"

\* C26: the fallback planner never throws, whatever its argument, the
\* outcome of the duration probe and the feature flags are, and the
\* strategy of the result it returns is one of full_fade, fade_in_only,
\* watermark_only and no_fade
C26_PlannerNeverThrows ==
    PlannedFade =>
        /\ ~lastPlan.result.raised
        /\ lastPlan.result.value.strategy \in
              {"full_fade", "fade_in_only", "watermark_only", "no_fade"}

\* C27: when the duration probe of the render step fails, the filters
\* planned for the render command hold a fade-in and no fade-out, and
\* building them does not fail the render step
C27_ScenarioD ==
    PlannedRender /\ ~FadesDisabled /\ lastPlan.probe.throws =>
        /\ ~lastPlan.result.raised
        /\ HasFadeIn(lastPlan.result.value)
        /\ ~HasFadeOut(lastPlan.result.value)

\* the probe threw and SKIP_FADE_ON_DURATION_ERROR was off, so the error
\* was thrown on into the catch of the planner
ErrorCaught ==
    /\ ProbeConsulted
    /\ lastPlan.probe.throws
    /\ ~lastPlan.flags.SKIP_FADE_ON_DURATION_ERROR

\* C28: when an error reaches the catch of the fallback planner, the
\* strategy returned is watermark_only if and only if a watermark was
\* requested and no_fade otherwise, and a non-empty reason is recorded
C28_ErrorStrategy ==
    ErrorCaught =>
        /\ ~lastPlan.result.raised
        /\ lastPlan.options.addWatermark =>
              lastPlan.result.value.strategy = "watermark_only"
        /\ ~lastPlan.options.addWatermark =>
              lastPlan.result.value.strategy = "no_fade"
        /\ TruthyStr(lastPlan.result.value.fallbackReason)

\* C29: the fallback planner returns full_fade only if the duration was
\* resolved and is at least 1.0 s, fade effects and fade-out effects are
\* enabled by the flags, no emergency disables them and safe-fallback
\* mode is off, and then the fade-out starts 0.5 s before the end; in
\* every other case in which it returns, the strategy is a lower rung
C29_FullFadeOnlyIf ==
    FadeReturned =>
        IF lastPlan.result.value.strategy = "full_fade"
        THEN /\ TruthyNum(ResolvedDuration)
             /\ ResolvedDuration[1] >= MinFadeDuration
             /\ lastPlan.flags.ENABLE_FADE_EFFECTS
             /\ lastPlan.flags.ENABLE_FADE_OUT_EFFECTS
             /\ ~lastPlan.flags.EMERGENCY_DISABLE_ALL_EFFECTS
             /\ ~lastPlan.flags.USE_SAFE_FADE_FALLBACK
             /\ ~lastPlan.flags.FORCE_FALLBACK_MODE
             /\ \E k \in 1..Len(lastPlan.result.value.filters) :
                   lastPlan.result.value.filters[k] =
                      FadeOutFilter(Max(0, ResolvedDuration[1] - FadeDuration),
                                    FadeDuration)
        ELSE /\ lastPlan.result.value.strategy \in
                   {"fade_in_only", "watermark_only", "no_fade"}
             /\ ~HasFadeOut(lastPlan.result.value.filters)

\* the probe returned 3.0 s for a video handed in without a duration and
\* the planner chose full_fade with the fade-out starting at 2.5 s
C29_Witness ==
    /\ FadeReturned
    /\ ProbeConsulted
    /\ lastPlan.probe = ProbeReturns(300)
    /\ lastPlan.options.addWatermark
    /\ lastPlan.result.value.strategy = "full_fade"
    /\ lastPlan.result.value.filters =
          <<WatermarkFilter, FadeInFilter(50), FadeOutFilter(250, 50)>>

\* C30: when the flags disable fades globally, the fallback planner
\* returns watermark_only or no_fade and no fade filter
C30_FadesDisabled ==
    FadeReturned /\ FadesDisabled =>
        /\ lastPlan.result.value.strategy \in {"watermark_only", "no_fade"}
        /\ ~HasFadeIn(lastPlan.result.value.filters)
        /\ ~HasFadeOut(lastPlan.result.value.filters)

----------------------------------------------------------------------------
(* The validator on arbitrary batches *)

\* the path of a segment: filePath, or outputPath when filePath holds none
PathOf(segment) ==
    IF TruthyStr(segment.filePath) THEN segment.filePath ELSE segment.outputPath

\* a segment as the validator is to admit it: a path that is a non-empty
\* string other than "undefined" and "null", a start that is a number not
\* below 0, an end that is a number above the start, and behind a path
\* that is no URL a file that exists and is not empty
ValidSegment(segment) ==
    /\ segment # Null
    /\ PathOf(segment) # Undefined
    /\ PathOf(segment)[1] # ""
    /\ IsString(PathOf(segment)[1])
    /\ PathOf(segment)[1] \notin {"undefined", "null"}
    /\ segment.startTime # Undefined
    /\ segment.startTime[1] >= 0
    /\ segment.endTime # Undefined
    /\ segment.endTime[1] > segment.startTime[1]
    /\ \/ IsHttp(PathOf(segment)[1])
       \/ PathOf(segment)[1] \in ExistingFiles \ EmptyFiles

C32_ValidatorNeverRaises ==
    validations >= 1 =>
        /\ ~validationRaised
        /\ Len(survivors) = Len(SelectSeq(inputBatch, ValidSegment))

----------------------------------------------------------------------------
(* Score and strategy of a normalised segment *)

\* the first of a, b that is present (not undefined), else c
FirstPresent(a, b, c) == IF a # Undefined THEN a ELSE IF b # Undefined THEN b ELSE c

\* C33: the score of a segment prepared for steps 3 and 4 is the raw
\* segment's score when it has one, the value 0 included, otherwise its
\* relevanceScore when it has one, otherwise 0.8; its strategy is the raw
\* strategy when it has one, otherwise "unknown"
C33_FirstNonNullScore ==
    \A i \in {3, 4} :
       (Prepared(i) /\ Len(toolArgs[i].segments) = Len(validateSegments(ChosenSource(i)))) =>
          \A n \in 1..Len(toolArgs[i].segments) :
             LET raw == ChosenSource(i)[NthValid(ChosenSource(i), n)] IN
             /\ toolArgs[i].segments[n].score =
                   FirstPresent(raw.score, raw.relevanceScore, Some(DefaultScore))
             /\ toolArgs[i].segments[n].strategy =
                   FirstPresent(raw.strategy, Undefined, Some("unknown"))

----------------------------------------------------------------------------
(* Terminal events of a run *)

\* the positions of the terminal events in a log
TerminalAt(log) == {k \in 1..Len(log) : log[k].type \in Terminal}

\* C34: at most one terminal event, workflow_complete or error, is ever
\* published for a run and handed to a handler, whether a tool, the
\* argument preparation, a reflection or the publication of an event fails
C34_OneTerminalEvent ==
    /\ Cardinality(TerminalAt(published)) <= 1
    /\ \A h \in Handlers : Cardinality(TerminalAt(received[h])) <= 1

\* a handler threw while an event of the run was published, the run came
\* to its end and its one terminal event is the error event
C34_Witness ==
    /\ pc = "done"
    /\ pendingError = HandlerError
    /\ Cardinality(TerminalAt(published)) = 1
    /\ published[Len(published)].type = "error"
    /\ \E i \in StepIndex : steps[i].status = "failed"

\* the run has published its terminal event
TerminalPublished == TerminalAt(published) # {}

\* the run has come to its end
RunEnded == pc = "done"

\* C35: every run that was started eventually publishes a terminal event
\* and then has its state removed from the map of the manager, also when
\* a handler throws while an event is published
C35_RunTerminates ==
    Started ~> (TerminalPublished /\ JobId \notin workflows)

\* the scalar status 'failed' was published for the job
FailedPublished ==
    \E k \in 1..Len(published) :
       published[k].type = "progress" /\ published[k].status = "failed"

\* C36: startWorkflow never rejects, whatever a tool, the argument
\* preparation or the publication of an event raises; executeAgentWorkflow
\* resolves with success = true for every run, one that ended with an
\* error event included, and the status 'failed' is never published
C36_StartWorkflowNeverRejects ==
    /\ pc # "rejected"
    /\ lastCall.op = "executeAgentWorkflow" =>
          ~lastCall.raised /\ lastCall.result.success
    /\ ~FailedPublished

\* a handler threw while an event was published, the run ended with the
\* error event and executeAgentWorkflow returned success
C36_Witness ==
    /\ lastCall = Call("executeAgentWorkflow", JobId, FALSE, [success |-> TRUE])
    /\ pendingError = HandlerError
    /\ published[Len(published)].type = "error"
    /\ pc = "done"

\* this step publishes a workflow event
PublishesWorkflowEvent ==
    /\ Len(published') = Len(published) + 1
    /\ published'[Len(published')].type # "progress"

\* C37: publishing a workflow event, workflow_complete and error included,
\* leaves the job's row and the status and progress getJobStatus returns
\* as they were, and the row of a reel job, hence every snapshot read from
\* it, stays at (pending, 0) for the whole run
C37_WorkflowEventsLeaveRecord ==
    /\ [](HasRow(JobId) => jobRows[JobId] = [status |-> "pending", progress |-> 0])
    /\ [][PublishesWorkflowEvent =>
             /\ jobRows' = jobRows
             /\ JobStatus(JobId)' = JobStatus(JobId)]_vars
    /\ [][(Calls("getJobStatus") /\ dbUp /\ HasRow(JobId)) =>
             /\ lastCall'.result.body.status = "pending"
             /\ lastCall'.result.body.progress = 0]_vars

\* the run has published its terminal event and the status queried after
\* it is still the one of the row's creation
C37_Witness ==
    /\ pc = "done"
    /\ TerminalAt(published) # {}
    /\ dbUp /\ HasRow(JobId)
    /\ lastCall = Call("getJobStatus", JobId, FALSE, Ok(Snapshot(NewRow)))

\* the log holds the job's initial_response event
HasInitial(log) == \E k \in 1..Len(log) : log[k].type = "initial_response"

\* C38: initial_response is published inside createReel before the
\* response with the job id is written; a handler receives it only in
\* that step and only if it was subscribed before the step, so a client
\* that subscribes after the response never receives it
C38_InitialResponseBeforeResponse ==
    /\ [](HasInitial(published) <=> pc \notin {"idle", "created"})
    /\ [][Calls("createReel") =>
             /\ ~HasInitial(published)
             /\ published'[Len(published')].type = "initial_response"]_vars
    /\ [][\A h \in Handlers :
             (HasInitial(received'[h]) /\ ~HasInitial(received[h])) =>
                (Calls("createReel") /\ Registered(h, listeners))]_vars

\* the handler subscribed before the job was created received the initial
\* event in the step that wrote the response, and the events it received
\* since do not repeat it
C38_Witness ==
    /\ lastCall = Call("createReel", JobId, FALSE, Accepted(JobId))
    /\ received["h1"] # << >>
    /\ received["h1"][1].type = "initial_response"
    /\ Len(received["h1"]) > 1
    /\ ~HasInitial(Tail(received["h1"]))

\* FORCE_FALLBACK_MODE is overridden at run time, which only
\* enableForceFallbackMode does
ForcedFallback ==
    /\ "FORCE_FALLBACK_MODE" \in DOMAIN runtimeOverrides
    /\ runtimeOverrides.FORCE_FALLBACK_MODE

\* C39: once enableForceFallbackMode was called, shouldUseSafeFallback
\* stays true across later calls of enableForceFallbackMode and
\* emergencyDisableAllEffects: from a state in which the forced mode is in
\* the overrides, every step but resetEmergencyFlags (the one that empties
\* the overrides) leads to a state where it returns true
C39_ForcedFallbackPersists ==
    [][(ForcedFallback /\ runtimeOverrides' # << >>) =>
          shouldUseSafeFallback']_vars

\* the percentages published with the status 'running' or 'completed',
\* in the order of their publication
PublishedPercents ==
    LET shown == SelectSeq(published,
                   LAMBDA m : m.type = "progress"
                              /\ m.status \in {"running", "completed"})
    IN  [k \in 1..Len(shown) |-> shown[k].progress]

\* C40: the percentages an indexing job publishes with the status
\* 'running' or 'completed' never decrease and lie within 0..100
C40_PercentNonDecreasing ==
    /\ \A k \in 1..Len(PublishedPercents) : PublishedPercents[k] \in 0..100
    /\ \A k \in 1..(Len(PublishedPercents) - 1) :
          PublishedPercents[k] <= PublishedPercents[k + 1]

====
